---- MODULE Spec2Model ----
(***************************************************************************)
(* TaskFlow: the Express/Mongoose task service (server/controllers,        *)
(* server/models, server/routes) and the browser's simulated store         *)
(* (src/utils/api.ts) with the Dashboard's derived view.                   *)
(*                                                                         *)
(* A request body, an update document, a query string and a stored         *)
(* document are records; an absent key is an absent path.  Strings that    *)
(* are searched or sorted are sequences of one-character strings; enum     *)
(* values are TLA+ strings spelled out by Spell.  Dates are natural        *)
(* numbers.                                                                *)
(***************************************************************************)
EXTENDS Integers, Sequences, FiniteSets, TLC

\* ------------------------------------------------------------------ bounds
MaxTasks == 2
MaxListed == 2
MaxSorted == 3
MaxTotal == 250
MaxClientTasks == 2
MaxClock == 2
MaxUsers == 2
MaxInFlight == 2
MaxRequests == 2
MaxAwaiting == 2

\* --------------------------------------------------------------- constants
Users == {"u1", "u2"}
Priorities == {"low", "medium", "high"}
Statuses == {"todo", "in-progress", "completed"}
SortFields == {"title", "priority", "status", "createdAt", "updatedAt"}
SortOrders == {"asc", "desc"}
\* the instant every `new Date()` of the server reads (its model is atemporal)
Now == 2
\* a Date path holding null; as a number it comes before every instant, as null
\* does before every date in BSON order
NullDate == 0
NoTask == [null |-> TRUE]
NoUser == "nobody"
\* the lifetime generateToken gives a token, in milliseconds
TokenTTL == 24 * 60 * 60 * 1000
DefaultPriority == "medium"
DefaultStatus == "todo"
DefaultPage == 1
DefaultLimit == 10
MinLimit == 1
MaxLimit == 100
MinPage == 1

VARIABLES
    tasks,      \* server: the Task collection, _id -> document
    nextId,     \* server: the next ObjectId the driver hands out
    ctasks,     \* client: TaskAPI.tasks, an array of Task objects
    clock,      \* client: the millisecond Date.now() currently returns
    users,      \* client: TaskAPI.users, an array of users with their password
    calls,      \* client: the register calls awaiting hashPassword
    session,    \* client: the user and token state of the AuthProvider
    storedToken,\* client: localStorage 'taskapp_token'
    preferences,\* server: user id -> the preferences of that User document
    inflight,   \* server: the requests between two awaits of their handler
    provider,   \* client: tasks, loading, error of the TaskProvider and the calls it awaits
    resp        \* the last request with the response it got

vars == <<tasks, nextId, ctasks, clock, users, calls, session, storedToken,
          preferences, inflight, provider, resp>>

AuthVars == <<users, calls, session, storedToken>>

\* ----------------------------------------------------------------- strings
Min(a, b) == IF a <= b THEN a ELSE b

\* the UTF-16 code unit of a character
CodeUnit(c) ==
    CASE c = "-" -> 45  [] c = "." -> 46  [] c = "A" -> 65  [] c = "B" -> 66
      [] c = "a" -> 97  [] c = "b" -> 98  [] c = "c" -> 99  [] c = "d" -> 100
      [] c = "e" -> 101 [] c = "g" -> 103 [] c = "h" -> 104 [] c = "i" -> 105
      [] c = "l" -> 108 [] c = "m" -> 109 [] c = "n" -> 110 [] c = "o" -> 111
      [] c = "p" -> 112 [] c = "r" -> 114 [] c = "s" -> 115 [] c = "t" -> 116
      [] c = "u" -> 117 [] c = "w" -> 119

\* String.prototype.toLowerCase on one character
ToLowerCase(c) == CASE c = "A" -> "a" [] c = "B" -> "b" [] OTHER -> c

\* the characters of an enum value
Spell(s) ==
    CASE s = "low" -> <<"l", "o", "w">>
      [] s = "medium" -> <<"m", "e", "d", "i", "u", "m">>
      [] s = "high" -> <<"h", "i", "g", "h">>
      [] s = "todo" -> <<"t", "o", "d", "o">>
      [] s = "in-progress" -> <<"i", "n", "-", "p", "r", "o", "g", "r", "e", "s", "s">>
      [] s = "completed" -> <<"c", "o", "m", "p", "l", "e", "t", "e", "d">>

\* the order in which MongoDB (simple binary collation) and the JavaScript
\* operators < and > put two strings, given as sequences of characters
StringLess(a, b) ==
    \E k \in 1..(Min(Len(a), Len(b)) + 1) :
        /\ \A j \in 1..(k - 1) : a[j] = b[j]
        /\ IF k <= Len(a) /\ k <= Len(b)
           THEN CodeUnit(a[k]) < CodeUnit(b[k])
           ELSE k > Len(a) /\ k <= Len(b)

\* String.prototype.includes after toLowerCase on both sides
IncludesIgnoreCase(text, part) ==
    \E start \in 1..(Len(text) - Len(part) + 1) :
        \A k \in 1..Len(part) :
            ToLowerCase(text[start + k - 1]) = ToLowerCase(part[k])

\* { $regex: pattern, $options: 'i' } on a string: an unanchored match in which
\* "." stands for any character and every other character of the alphabet for
\* itself
RegexTest(pattern, text) ==
    \E start \in 1..(Len(text) - Len(pattern) + 1) :
        \A k \in 1..Len(pattern) :
            \/ pattern[k] = "."
            \/ ToLowerCase(text[start + k - 1]) = ToLowerCase(pattern[k])

\* ------------------------------------------------------------ Task schema
\* the paths of TaskSchema that the controllers read or write
SchemaPaths ==
    {"title", "description", "priority", "status", "user", "dueDate",
     "completedAt", "isArchived"}

Has(rec, path) == path \in DOMAIN rec

Without(rec, path) == [p \in (DOMAIN rec) \ {path} |-> rec[p]]

With(rec, path, value) ==
    [p \in (DOMAIN rec) \cup {path} |-> IF p = path THEN value ELSE rec[p]]

\* Mongoose strict mode keeps only schema paths of a body
Strict(body) == [p \in (DOMAIN body) \cap SchemaPaths |-> body[p]]

\* new Task(body) with the given _id: explicit paths from the body, the schema
\* defaults for priority, status and isArchived, the timestamps
NewDoc(id, body) ==
    [p \in (DOMAIN Strict(body))
           \cup {"_id", "priority", "status", "isArchived", "createdAt", "updatedAt"} |->
        IF Has(Strict(body), p) THEN body[p]
        ELSE CASE p = "_id" -> id
               [] p = "priority" -> DefaultPriority
               [] p = "status" -> DefaultStatus
               [] p = "isArchived" -> FALSE
               [] p = "createdAt" -> Now
               [] p = "updatedAt" -> Now]

\* PreSave that does not ask whether status was modified
PreSave_AnySave(doc, statusModified) ==
    IF doc.status = "completed" /\ ~Has(doc, "completedAt")
    THEN With(doc, "completedAt", Now)
    ELSE IF doc.status # "completed"
         THEN Without(doc, "completedAt")
         ELSE doc

\* TaskSchema.pre('save'): statusModified is this.isModified('status')
PreSave(doc, statusModified) ==
    IF statusModified
    THEN IF doc.status = "completed" /\ ~Has(doc, "completedAt")
         THEN With(doc, "completedAt", Now)
         ELSE IF doc.status # "completed"
              THEN Without(doc, "completedAt")
              ELSE doc
    ELSE doc

\* an update that replaces the document by the update document
ApplyUpdate_Replace(doc, update) ==
    [p \in {"_id", "updatedAt"} \cup (DOMAIN Strict(update)) |->
        IF Has(Strict(update), p) THEN update[p]
        ELSE IF p = "updatedAt" THEN Now ELSE doc[p]]

\* the $set that findByIdAndUpdate and updateMany make of an update document
\* (no save middleware runs); timestamps: true rewrites updatedAt
ApplyUpdate(doc, update) ==
    [p \in (DOMAIN doc) \cup (DOMAIN Strict(update)) |->
        IF Has(Strict(update), p) THEN update[p]
        ELSE IF p = "updatedAt" THEN Now ELSE doc[p]]

\* Task.findOne({_id: id, user: user}): the _id found, or 0 for null
FindOne(id, user) ==
    IF id \in DOMAIN tasks /\ tasks[id].user = user THEN id ELSE 0

\* UpdateManyFilter without the user condition
UpdateManyFilter_AnyOwner(taskIds, user) ==
    {id \in DOMAIN tasks : id \in taskIds}

\* the documents Task.updateMany({_id: {$in: taskIds}, user: user}, ...) matches
UpdateManyFilter(taskIds, user) ==
    {id \in DOMAIN tasks : id \in taskIds /\ tasks[id].user = user}

Response(op, caller, args, code, data) ==
    [op |-> op, caller |-> caller, args |-> args, code |-> code, data |-> data]

\* what no task controller touches
StoreFrame == UNCHANGED <<ctasks, clock, AuthVars, preferences, provider>>

ServerFrame == StoreFrame /\ UNCHANGED inflight

\* ------------------------------------------------------------ controllers
createTask(caller, body) ==
    /\ nextId <= MaxTasks
    /\ LET withUser == With(body, "user", caller)
           doc == PreSave(NewDoc(nextId, withUser), Has(withUser, "status"))
       IN /\ tasks' = [id \in (DOMAIN tasks) \cup {nextId} |->
                          IF id = nextId THEN doc ELSE tasks[id]]
          /\ nextId' = nextId + 1
          /\ resp' = Response("createTask", caller, [body |-> body], 201, doc)
    /\ ServerFrame

getTask(caller, id) ==
    /\ LET found == FindOne(id, caller)
       IN resp' = IF found = 0
                  THEN Response("getTask", caller, [id |-> id], 404, NoTask)
                  ELSE Response("getTask", caller, [id |-> id], 200, tasks[found])
    /\ UNCHANGED <<tasks, nextId>>
    /\ ServerFrame

updateTask(caller, id, body) ==
    /\ LET found == FindOne(id, caller)
       IN IF found = 0
          THEN /\ resp' = Response("updateTask", caller, [id |-> id, body |-> body],
                                   404, NoTask)
               /\ UNCHANGED tasks
          ELSE /\ tasks' = [tasks EXCEPT ![id] = ApplyUpdate(tasks[id], body)]
               /\ resp' = Response("updateTask", caller, [id |-> id, body |-> body],
                                   200, tasks'[id])
    /\ UNCHANGED nextId
    /\ ServerFrame

deleteTask(caller, id) ==
    /\ LET found == FindOne(id, caller)
       IN IF found = 0
          THEN /\ resp' = Response("deleteTask", caller, [id |-> id], 404, NoTask)
               /\ UNCHANGED tasks
          ELSE /\ tasks' = [i \in (DOMAIN tasks) \ {found} |-> tasks[i]]
               /\ resp' = Response("deleteTask", caller, [id |-> id], 200, NoTask)
    /\ UNCHANGED nextId
    /\ ServerFrame

toggleArchiveTask(caller, id) ==
    /\ LET found == FindOne(id, caller)
       IN IF found = 0
          THEN /\ resp' = Response("toggleArchiveTask", caller, [id |-> id],
                                   404, NoTask)
               /\ UNCHANGED tasks
          ELSE LET flipped == [tasks[found] EXCEPT !.isArchived = ~@]
                   saved == With(PreSave(flipped, FALSE), "updatedAt", Now)
               IN /\ tasks' = [tasks EXCEPT ![found] = saved]
                  /\ resp' = Response("toggleArchiveTask", caller, [id |-> id],
                                      200, saved)
    /\ UNCHANGED nextId
    /\ ServerFrame

bulkUpdateTasks(caller, taskIds, updates) ==
    /\ IF taskIds = {}
       THEN /\ resp' = Response("bulkUpdateTasks", caller,
                                [taskIds |-> taskIds, updates |-> updates],
                                400, [message |-> "Task IDs array is required"])
            /\ UNCHANGED tasks
       ELSE LET matched == UpdateManyFilter(taskIds, caller)
            IN /\ tasks' = [id \in DOMAIN tasks |->
                               IF id \in matched
                               THEN ApplyUpdate(tasks[id], updates)
                               ELSE tasks[id]]
               /\ resp' = Response("bulkUpdateTasks", caller,
                                   [taskIds |-> taskIds, updates |-> updates],
                                   200, [modifiedCount |-> Cardinality(matched)])
    /\ UNCHANGED nextId
    /\ ServerFrame

\* { $lt: ['$path', date] } in an aggregation expression: values of different
\* types compare in BSON order, in which a missing field and null come before
\* every date
BsonLt(doc, path, date) ==
    IF Has(doc, path) THEN doc[path] < date ELSE TRUE

\* { $ne: ['$path', null] } in an aggregation expression: a missing field is
\* not equal to null
BsonNeNull(doc, path) ==
    IF Has(doc, path) THEN doc[path] # NullDate ELSE TRUE

\* TaskSchema.virtual('isOverdue'): a missing or null dueDate is falsy
IsOverdue(doc) ==
    /\ Has(doc, "dueDate")
    /\ doc.dueDate # NullDate
    /\ doc.dueDate < Now
    /\ doc.status # "completed"

\* a $sum accumulator of the $group stage: the sum of a $cond value (1 or 0)
\* over the documents that reach the stage
RECURSIVE SumOver(_, _)
SumOver(cond, ids) ==
    IF ids = {} THEN 0
    ELSE LET id == CHOOSE x \in ids : TRUE
         IN cond[id] + SumOver(cond, ids \ {id})

\* StatsMatch without the isArchived condition
StatsMatch_WithArchived(userId) ==
    {id \in DOMAIN tasks : tasks[id].user = userId}

StatsMatch(userId) ==
    {id \in DOMAIN tasks : tasks[id].user = userId /\ tasks[id].isArchived = FALSE}

\* Task.getTaskStats(userId): $match {user, isArchived: false}, one $group,
\* zeros when nothing reaches it
TaskStats(userId) ==
    LET matched == StatsMatch(userId)
        Cond(Test(_)) == [id \in matched |-> IF Test(tasks[id]) THEN 1 ELSE 0]
        Overdue(d) == /\ BsonLt(d, "dueDate", Now)
                      /\ d.status # "completed"
                      /\ BsonNeNull(d, "dueDate")
    IN IF matched = {}
       THEN [total |-> 0, completed |-> 0, inProgress |-> 0, todo |-> 0,
             highPriority |-> 0, overdue |-> 0]
       ELSE [total |-> SumOver([id \in matched |-> 1], matched),
             completed |-> SumOver(Cond(LAMBDA d : d.status = "completed"), matched),
             inProgress |-> SumOver(Cond(LAMBDA d : d.status = "in-progress"), matched),
             todo |-> SumOver(Cond(LAMBDA d : d.status = "todo"), matched),
             highPriority |-> SumOver(Cond(LAMBDA d : d.priority = "high"), matched),
             overdue |-> SumOver(Cond(Overdue), matched)]

\* GET /api/tasks/stats.  The $match calls mongoose.Types.ObjectId(userId)
\* without new: where ObjectId is a function the aggregate runs, where it is a
\* class (mongoose 7 and later) the call throws and the error handler answers
\* 500; the installed version is not part of the sources, so both are outcomes
getTaskStats(caller) ==
    /\ \/ resp' = Response("getTaskStats", caller, [id |-> 0], 200, TaskStats(caller))
       \/ resp' = Response("getTaskStats", caller, [id |-> 0], 500,
                            [message |-> "Server Error"])
    /\ UNCHANGED <<tasks, nextId>>
    /\ ServerFrame

\* ------------------------------- controllers, await by await (concurrency)
\* the sequence without its k-th element
Remove(seq, k) ==
    [j \in 1..(Len(seq) - 1) |-> IF j < k THEN seq[j] ELSE seq[j + 1]]

\* toggleArchiveTask up to the end of await Task.findOne: the handler holds
\* the document it has read
toggleArchiveTask_findOne(caller, id) ==
    /\ LET found == FindOne(id, caller)
       IN IF found = 0
          THEN /\ resp' = Response("toggleArchiveTask", caller, [id |-> id], 404, NoTask)
               /\ UNCHANGED inflight
          ELSE /\ Len(inflight) < MaxRequests
               /\ inflight' = Append(inflight, [op |-> "toggleArchiveTask",
                                                caller |-> caller, id |-> id,
                                                task |-> tasks[found]])
               /\ UNCHANGED resp
    /\ UNCHANGED <<tasks, nextId>>
    /\ StoreFrame

\* the rest of toggleArchiveTask: task.isArchived = !task.isArchived and
\* task.save(), which writes the paths modified of the document held
\* (isArchived, updatedAt) to the stored document of that _id and throws
\* DocumentNotFoundError if there is none
toggleArchiveTask_save(k) ==
    /\ k \in 1..Len(inflight)
    /\ inflight[k].op = "toggleArchiveTask"
    /\ LET r == inflight[k]
           flipped == [r.task EXCEPT !.isArchived = ~r.task.isArchived]
           saved == With(PreSave(flipped, FALSE), "updatedAt", Now)
       IN IF r.id \in DOMAIN tasks
          THEN /\ tasks' = [tasks EXCEPT ![r.id] =
                               [@ EXCEPT !.isArchived = saved.isArchived,
                                         !.updatedAt = saved.updatedAt]]
               /\ resp' = Response("toggleArchiveTask", r.caller, [id |-> r.id],
                                   200, saved)
          ELSE /\ resp' = Response("toggleArchiveTask", r.caller, [id |-> r.id],
                                   500, [success |-> FALSE])
               /\ UNCHANGED tasks
    /\ inflight' = Remove(inflight, k)
    /\ UNCHANGED nextId
    /\ StoreFrame

\* updateTask up to the end of await Task.findOne
updateTask_findOne(caller, id, body) ==
    /\ LET found == FindOne(id, caller)
       IN IF found = 0
          THEN /\ resp' = Response("updateTask", caller, [id |-> id, body |-> body],
                                   404, NoTask)
               /\ UNCHANGED inflight
          ELSE /\ Len(inflight) < MaxRequests
               /\ inflight' = Append(inflight, [op |-> "updateTask",
                                                caller |-> caller, id |-> id,
                                                body |-> body])
               /\ UNCHANGED resp
    /\ UNCHANGED <<tasks, nextId>>
    /\ StoreFrame

\* the rest of updateTask: Task.findByIdAndUpdate(req.params.id, req.body)
\* looks the document up by _id alone; it gives null if there is none, and
\* task.title of null throws a TypeError that goes to next(error)
updateTask_findByIdAndUpdate(k) ==
    /\ k \in 1..Len(inflight)
    /\ inflight[k].op = "updateTask"
    /\ LET r == inflight[k]
           args == [id |-> r.id, body |-> r.body]
       IN IF r.id \in DOMAIN tasks
          THEN /\ tasks' = [tasks EXCEPT ![r.id] = ApplyUpdate(tasks[r.id], r.body)]
               /\ resp' = Response("updateTask", r.caller, args, 200, tasks'[r.id])
          ELSE /\ resp' = Response("updateTask", r.caller, args, 500,
                                   [success |-> FALSE])
               /\ UNCHANGED tasks
    /\ inflight' = Remove(inflight, k)
    /\ UNCHANGED nextId
    /\ StoreFrame

\* ----------------------------------------------------- listing (getTasks)
\* validateTaskQuery: page and limit arrive as decimal numerals and are given
\* here by their values
ValidateTaskQuery(q) ==
    /\ Has(q, "page") => q.page >= MinPage
    /\ Has(q, "limit") => q.limit >= MinLimit /\ q.limit <= MaxLimit
    /\ Has(q, "priority") => q.priority \in Priorities
    /\ Has(q, "status") => q.status \in Statuses
    /\ Has(q, "sortBy") => q.sortBy \in SortFields
    /\ Has(q, "sortOrder") => q.sortOrder \in SortOrders

\* the destructuring defaults of getTasks
Param(q, name) ==
    IF Has(q, name) THEN q[name]
    ELSE CASE name = "page" -> DefaultPage
           [] name = "limit" -> DefaultLimit
           [] name = "sortBy" -> "createdAt"
           [] name = "sortOrder" -> "desc"
           [] name = "includeArchived" -> "false"
           [] name = "search" -> <<>>
           [] OTHER -> ""

\* whether a document satisfies the query object that getTasks builds
QueryMatches(doc, caller, q) ==
    /\ doc.user = caller
    /\ IF Param(q, "includeArchived") = "true"
       THEN doc.isArchived \in {TRUE, FALSE}
       ELSE doc.isArchived = FALSE
    /\ Param(q, "search") # <<>> =>
          \/ RegexTest(q.search, doc.title)
          \/ Has(doc, "description") /\ RegexTest(q.search, doc.description)
    /\ Has(q, "priority") => doc.priority = q.priority
    /\ Has(q, "status") => doc.status = q.status

\* the collection in its natural (insertion) order
Collection ==
    LET ids == SelectSeq([i \in 1..(nextId - 1) |-> i], LAMBDA i : i \in DOMAIN tasks)
    IN [k \in 1..Len(ids) |-> tasks[ids[k]]]

\* the order of two documents under .sort({[sortBy]: 1}): strings compare by
\* code units, dates by instant
SortKeyLess(sortBy, a, b) ==
    CASE sortBy = "title" -> StringLess(a.title, b.title)
      [] sortBy = "priority" -> StringLess(Spell(a.priority), Spell(b.priority))
      [] sortBy = "status" -> StringLess(Spell(a.status), Spell(b.status))
      [] sortBy = "createdAt" -> a.createdAt < b.createdAt
      [] sortBy = "updatedAt" -> a.updatedAt < b.updatedAt

\* Task.find(query).sort(sortObj): documents with equal keys stay in natural
\* order, one of the orders MongoDB may return them in
Find(caller, q) ==
    LET matched == SelectSeq(Collection, LAMBDA d : QueryMatches(d, caller, q))
        sortBy == Param(q, "sortBy")
    IN IF Param(q, "sortOrder") = "asc"
       THEN SortSeq(matched, LAMBDA a, b : SortKeyLess(sortBy, a, b))
       ELSE SortSeq(matched, LAMBDA a, b : SortKeyLess(sortBy, b, a))

\* CountDocuments that counts the returned page
CountDocuments_OfPage(caller, q) ==
    LET n == Len(Find(caller, q))
        skip == (Param(q, "page") - 1) * Param(q, "limit")
    IN IF n - skip < 0 THEN 0 ELSE Min(n - skip, Param(q, "limit"))

\* Task.countDocuments(query)
CountDocuments(caller, q) ==
    Cardinality({id \in DOMAIN tasks : QueryMatches(tasks[id], caller, q)})

\* .limit(limit * 1).skip((page - 1) * limit) on a cursor: skip, then limit
SkipLimit(docs, page, limit) ==
    LET skip == (page - 1) * limit
    IN SubSeq(docs, skip + 1, Min(skip + limit, Len(docs)))

\* Pages that rounds down
Pages_Floor(total, limit) == total \div limit

\* Math.ceil(total / limit)
Pages(total, limit) ==
    IF total % limit = 0 THEN total \div limit ELSE (total \div limit) + 1

\* GET /api/tasks: validateTaskQuery, then the getTasks controller
getTasks(caller, q) ==
    /\ IF ~ValidateTaskQuery(q)
       THEN resp' = Response("getTasks", caller, [query |-> q], 400,
                             [message |-> "Validation failed"])
       ELSE LET page == Param(q, "page")
                limit == Param(q, "limit")
                found == SkipLimit(Find(caller, q), page, limit)
                total == CountDocuments(caller, q)
            IN resp' = Response("getTasks", caller, [query |-> q], 200,
                                [count |-> Len(found),
                                 total |-> total,
                                 pagination |-> [page |-> page, limit |-> limit,
                                                 pages |-> Pages(total, limit)],
                                 data |-> found])
    /\ UNCHANGED <<tasks, nextId>>
    /\ ServerFrame

\* ------------------------------------------------- routes (routes/tasks.js)
\* an id that is not 24 hexadecimal digits; such an id names no document
NotAnObjectId == 0

IsMongoId(id) == id # NotAnObjectId

\* validateObjectId and the param('id') chain of validateUpdateTask: the
\* messages the chain records on the request
ValidateObjectId(id) ==
    IF IsMongoId(id) THEN {} ELSE {"Invalid ID format"}

\* a required body field that must be one of an enum
IsIn(body, path, values) == Has(body, path) /\ body[path] \in values

\* the chains of validateCreateTask (titles and descriptions stay below the
\* 200 and 1000 characters)
ValidateCreateTask(body) ==
    (IF Has(body, "title") /\ Len(body.title) >= 1 THEN {}
     ELSE {"Title is required and must be less than 200 characters"})
    \cup (IF IsIn(body, "priority", Priorities) THEN {}
          ELSE {"Priority must be low, medium, or high"})
    \cup (IF IsIn(body, "status", Statuses) THEN {}
          ELSE {"Status must be todo, in-progress, or completed"})

\* the chains of validateUpdateTask: every body field is optional
ValidateUpdateTask(id, body) ==
    (IF IsMongoId(id) THEN {} ELSE {"Invalid task ID"})
    \cup (IF Has(body, "title") /\ Len(body.title) < 1
          THEN {"Title must be less than 200 characters"} ELSE {})
    \cup (IF Has(body, "priority") /\ body.priority \notin Priorities
          THEN {"Priority must be low, medium, or high"} ELSE {})
    \cup (IF Has(body, "status") /\ body.status \notin Statuses
          THEN {"Status must be todo, in-progress, or completed"} ELSE {})

\* the chains of the '/bulk' route.  A body value is given with its type:
\* [array |-> ids], [string |-> s], [object |-> fields]; an array of update
\* stages [{$set: fields}] is [array |-> fields]
ValidateBulk(body) ==
    (IF Has(body, "taskIds") /\ Has(body.taskIds, "array") /\ body.taskIds.array # {}
     THEN {} ELSE {"Task IDs array is required"})
    \cup (IF Has(body, "taskIds") /\ Has(body.taskIds, "array")
             /\ \E id \in body.taskIds.array : ~IsMongoId(id)
          THEN {"Invalid task ID format"} ELSE {})
    \cup (IF Has(body, "updates") /\ Has(body.updates, "object") THEN {}
          ELSE {"Updates object is required"})

\* handleValidationErrors when the chains before it have recorded errors: the
\* request is answered and next() is not called
handleValidationErrors(op, caller, args, errors) ==
    /\ resp' = Response(op, caller, args, 400,
                        [success |-> FALSE, message |-> "Validation failed",
                         errors |-> errors])
    /\ UNCHANGED <<tasks, nextId>>
    /\ ServerFrame

\* next(error): the error middleware answers, the collection is as it was
nextError(op, caller, args) ==
    /\ resp' = Response(op, caller, args, 500, [success |-> FALSE])
    /\ UNCHANGED <<tasks, nextId>>
    /\ ServerFrame

\* POST /api/tasks
post_tasks(caller, body) ==
    LET errors == ValidateCreateTask(body)
    IN IF errors # {}
       THEN handleValidationErrors("createTask", caller, [body |-> body], errors)
       ELSE createTask(caller, body)

\* GET /api/tasks/:id
get_task(caller, id) ==
    LET errors == ValidateObjectId(id)
    IN IF errors # {}
       THEN handleValidationErrors("getTask", caller, [id |-> id], errors)
       ELSE getTask(caller, id)

\* PUT /api/tasks/:id
put_task(caller, id, body) ==
    LET errors == ValidateUpdateTask(id, body)
    IN IF errors # {}
       THEN handleValidationErrors("updateTask", caller, [id |-> id, body |-> body],
                                   errors)
       ELSE updateTask(caller, id, body)

\* DELETE /api/tasks/:id
delete_task(caller, id) ==
    LET errors == ValidateObjectId(id)
    IN IF errors # {}
       THEN handleValidationErrors("deleteTask", caller, [id |-> id], errors)
       ELSE deleteTask(caller, id)

\* PATCH /api/tasks/:id/archive
patch_archive(caller, id) ==
    LET errors == ValidateObjectId(id)
    IN IF errors # {}
       THEN handleValidationErrors("toggleArchiveTask", caller, [id |-> id], errors)
       ELSE toggleArchiveTask(caller, id)

\* the test of bulkUpdateTasks that refuses an empty array only
TaskIdsRequired_EmptyOnly(body) ==
    Has(body, "taskIds") /\ Has(body.taskIds, "array") /\ body.taskIds.array = {}

\* !taskIds || !Array.isArray(taskIds) || taskIds.length === 0
TaskIdsRequired(body) ==
    \/ ~Has(body, "taskIds")
    \/ ~Has(body.taskIds, "array")
    \/ body.taskIds.array = {}

\* whether { _id: { $in: taskIds } } can be cast: $in needs an array, and
\* each element must be an ObjectId
CastsIn(body) ==
    /\ Has(body, "taskIds")
    /\ Has(body.taskIds, "array")
    /\ \A id \in body.taskIds.array : IsMongoId(id)

\* PATCH /api/tasks/bulk: the chains of the route record their errors on the
\* request and no middleware of the route reads them, so bulkUpdateTasks runs
\* on every body.  What updateMany does without an update document or with an
\* array of stages depends on the mongoose of the build: nothing at all, the
\* stages as an update pipeline, or an error
patch_bulk(caller, body) ==
    LET args == [body |-> body]
    IN IF TaskIdsRequired(body)
       THEN /\ resp' = Response("bulkUpdateTasks", caller, args, 400,
                                [success |-> FALSE,
                                 message |-> "Task IDs array is required"])
            /\ UNCHANGED <<tasks, nextId>>
            /\ ServerFrame
       ELSE IF ~CastsIn(body)
       THEN nextError("bulkUpdateTasks", caller, args)
       ELSE IF ~Has(body, "updates")
       THEN \/ /\ resp' = Response("bulkUpdateTasks", caller, args, 200,
                                   [success |-> TRUE])
               /\ UNCHANGED <<tasks, nextId>>
               /\ ServerFrame
            \/ nextError("bulkUpdateTasks", caller, args)
       ELSE IF Has(body.updates, "array")
       THEN \/ LET matched == UpdateManyFilter(body.taskIds.array, caller)
               IN /\ tasks' = [id \in DOMAIN tasks |->
                                  IF id \in matched
                                  THEN ApplyUpdate(tasks[id], body.updates.array)
                                  ELSE tasks[id]]
                  /\ resp' = Response("bulkUpdateTasks", caller, args, 200,
                                      [success |-> TRUE,
                                       modifiedCount |-> Cardinality(matched)])
                  /\ UNCHANGED nextId
                  /\ ServerFrame
            \/ nextError("bulkUpdateTasks", caller, args)
       ELSE bulkUpdateTasks(caller, body.taskIds.array, body.updates.object)

\* ------------------------------------------------- client store (api.ts)
\* what no method of TaskAPI touches
ApiFrame == UNCHANGED <<tasks, nextId, AuthVars, preferences, inflight>>

ClientFrame == ApiFrame /\ UNCHANGED provider

\* object spread {...a, ...b}: the keys of b win
Spread(a, b) ==
    [p \in (DOMAIN a) \cup (DOMAIN b) |-> IF p \in DOMAIN b THEN b[p] ELSE a[p]]

\* this.tasks.findIndex(t => t.id === taskId && t.userId === userId), 0 for -1
FindIndex(taskId, userId) ==
    LET hits == {i \in 1..Len(ctasks) :
                    ctasks[i].id = taskId /\ ctasks[i].userId = userId}
    IN IF hits = {} THEN 0 ELSE CHOOSE i \in hits : \A j \in hits : i <= j

\* the object literal of TaskAPI.createTask: id and userId come first, taskData
\* is spread over them, the two timestamps are written last
NewClientTask(userId, taskData) ==
    Spread(Spread([id |-> clock, userId |-> userId], taskData),
           [createdAt |-> clock, updatedAt |-> clock])

api_createTask(userId, taskData) ==
    /\ Len(ctasks) < MaxClientTasks
    /\ LET task == NewClientTask(userId, taskData)
       IN /\ ctasks' = Append(ctasks, task)
          /\ resp' = Response("api.createTask", userId, [taskData |-> taskData],
                              0, task)
    /\ UNCHANGED clock
    /\ ApiFrame

api_updateTask(userId, taskId, updates) ==
    /\ LET taskIndex == FindIndex(taskId, userId)
       IN IF taskIndex = 0
          THEN /\ resp' = Response("api.updateTask", userId,
                                   [id |-> taskId, updates |-> updates],
                                   0, [error |-> "Task not found"])
               /\ UNCHANGED ctasks
          ELSE LET updated == Spread(Spread(ctasks[taskIndex], updates),
                                     [updatedAt |-> clock])
               IN /\ ctasks' = [ctasks EXCEPT ![taskIndex] = updated]
                  /\ resp' = Response("api.updateTask", userId,
                                      [id |-> taskId, updates |-> updates],
                                      0, updated)
    /\ UNCHANGED clock
    /\ ApiFrame

api_deleteTask(userId, taskId) ==
    /\ LET taskIndex == FindIndex(taskId, userId)
       IN IF taskIndex = 0
          THEN /\ resp' = Response("api.deleteTask", userId, [id |-> taskId],
                                   0, [error |-> "Task not found"])
               /\ UNCHANGED ctasks
          ELSE /\ ctasks' = [i \in 1..(Len(ctasks) - 1) |->
                                IF i < taskIndex THEN ctasks[i] ELSE ctasks[i + 1]]
               /\ resp' = Response("api.deleteTask", userId, [id |-> taskId],
                                   0, [deleted |-> taskIndex])
    /\ UNCHANGED clock
    /\ ApiFrame

api_getTasks(userId) ==
    /\ resp' = Response("api.getTasks", userId, [id |-> 0], 0,
                        [list |-> SelectSeq(ctasks, LAMBDA t : t.userId = userId)])
    /\ UNCHANGED <<ctasks, clock>>
    /\ ApiFrame

\* the millisecond clock moves on between two calls, or does not
Tick ==
    /\ clock % TokenTTL < MaxClock
    /\ clock' = clock + 1
    /\ UNCHANGED <<ctasks, resp>>
    /\ ClientFrame

\* ------------------------------------------- TaskProvider (TaskContext)
\* the user of useAuth() while the TaskProvider is mounted
ProviderUser == "u1"

\* setLoading(true); setError(null); then the method of TaskAPI is called: it
\* runs to its end at once and the provider awaits the promise it returns,
\* settled in outcome
Begin(outcome) ==
    [provider EXCEPT !.loading = TRUE, !.error = NoTask,
                     !.awaiting = Append(@, outcome)]

TaskProvider_getTasks ==
    /\ Len(provider.awaiting) < MaxAwaiting
    /\ api_getTasks(ProviderUser)
    /\ provider' = Begin(resp')

TaskProvider_createTask(taskData) ==
    /\ Len(provider.awaiting) < MaxAwaiting
    /\ api_createTask(ProviderUser, taskData)
    /\ provider' = Begin(resp')

TaskProvider_updateTask(id, taskData) ==
    /\ Len(provider.awaiting) < MaxAwaiting
    /\ api_updateTask(ProviderUser, id, taskData)
    /\ provider' = Begin(resp')

TaskProvider_deleteTask(id) ==
    /\ Len(provider.awaiting) < MaxAwaiting
    /\ api_deleteTask(ProviderUser, id)
    /\ provider' = Begin(resp')

\* a provider that empties its list when a call has failed
Reconcile_ResetOnFailure(list, outcome) ==
    IF Has(outcome.data, "error") THEN <<>>
    ELSE CASE outcome.op = "api.getTasks" -> outcome.data.list
           [] outcome.op = "api.createTask" -> Append(list, outcome.data)
           [] outcome.op = "api.updateTask" ->
                 [i \in DOMAIN list |-> IF list[i].id = outcome.args.id
                                        THEN outcome.data ELSE list[i]]
           [] outcome.op = "api.deleteTask" ->
                 SelectSeq(list, LAMBDA t : t.id # outcome.args.id)

\* the setTasks of the try block, which a rejected promise skips
Reconcile(list, outcome) ==
    IF Has(outcome.data, "error") THEN list
    ELSE CASE outcome.op = "api.getTasks" -> outcome.data.list
           [] outcome.op = "api.createTask" -> Append(list, outcome.data)
           [] outcome.op = "api.updateTask" ->
                 [i \in DOMAIN list |-> IF list[i].id = outcome.args.id
                                        THEN outcome.data ELSE list[i]]
           [] outcome.op = "api.deleteTask" ->
                 SelectSeq(list, LAMBDA t : t.id # outcome.args.id)

\* the rest of a method of the TaskProvider once the promise it awaits has
\* settled; promises settle in the order of the calls.  try: setTasks;
\* catch: setError and, except in getTasks, throw; finally: setLoading(false)
TaskProvider_resume ==
    /\ provider.awaiting # <<>>
    /\ LET outcome == Head(provider.awaiting)
           failed == Has(outcome.data, "error")
       IN /\ provider' = [tasks |-> Reconcile(provider.tasks, outcome),
                          loading |-> FALSE,
                          error |-> IF failed THEN outcome.data.error
                                    ELSE provider.error,
                          awaiting |-> Tail(provider.awaiting)]
          /\ resp' = Response("TaskProvider", ProviderUser,
                              [call |-> outcome.op, args |-> outcome.args], 0,
                              IF failed /\ outcome.op # "api.getTasks"
                              THEN outcome.data ELSE NoTask)
    /\ UNCHANGED <<ctasks, clock>>
    /\ ApiFrame

\* ------------------------------------- Dashboard (filteredAndSortedTasks)
PriorityOrder(priority) ==
    CASE priority = "high" -> 3 [] priority = "medium" -> 2 [] priority = "low" -> 1

StatusOrder(status) ==
    CASE status = "todo" -> 1 [] status = "in-progress" -> 2 [] status = "completed" -> 3

\* the predicate of tasks.filter: an empty filter field is falsy
FilterMatches(task, filters) ==
    /\ \/ filters.search = <<>>
       \/ IncludesIgnoreCase(task.title, filters.search)
       \/ IncludesIgnoreCase(task.description, filters.search)
    /\ filters.priority = "" \/ task.priority = filters.priority
    /\ filters.status = "" \/ task.status = filters.status

\* aValue < bValue for the values the comparator derives from two tasks
SortValueLess(sortBy, a, b) ==
    CASE sortBy = "priority" -> PriorityOrder(a.priority) < PriorityOrder(b.priority)
      [] sortBy = "status" -> StatusOrder(a.status) < StatusOrder(b.status)
      [] sortBy = "createdAt" -> a.createdAt < b.createdAt
      [] sortBy = "updatedAt" -> a.updatedAt < b.updatedAt
      [] sortBy = "title" -> StringLess(a.title, b.title)

\* the comparator handed to filtered.sort
Comparator(filters, a, b) ==
    IF filters.sortOrder = "asc"
    THEN IF SortValueLess(filters.sortBy, b, a) THEN 1 ELSE -1
    ELSE IF SortValueLess(filters.sortBy, a, b) THEN 1 ELSE -1

\* the useMemo of Dashboard over the tasks of the TaskProvider; tasks the
\* comparator cannot tell apart come out in one of the orders Array.sort may
\* give them
FilteredAndSortedTasks(list, filters) ==
    SortSeq(SelectSeq(list, LAMBDA t : FilterMatches(t, filters)),
            LAMBDA a, b : Comparator(filters, a, b) < 0)

\* the Dashboard of a signed-in user renders: TaskProvider.getTasks has loaded
\* api.getTasks(user.id), the view is derived from it
Dashboard(userId, filters) ==
    /\ resp' = Response("Dashboard", userId, [filters |-> filters], 0,
                        [list |-> FilteredAndSortedTasks(
                                      SelectSeq(ctasks, LAMBDA t : t.userId = userId),
                                      filters)])
    /\ UNCHANGED <<ctasks, clock>>
    /\ ClientFrame

\* ------------------------------------------ preferences (routes/preferences.js)
\* the handler of PUT with the notifications of the body in place of the merge
MergePreferences_Replace(prefs, body) ==
    LET themed == IF Has(body, "theme") /\ body.theme # ""
                  THEN [prefs EXCEPT !.theme = body.theme] ELSE prefs
    IN IF Has(body, "notifications") /\ body.notifications # NoTask
       THEN [themed EXCEPT !.notifications = body.notifications]
       ELSE themed

\* if (theme) ...; if (notifications) ... = {...old, ...notifications}: '' and
\* null are falsy, an object is truthy even when empty
MergePreferences(prefs, body) ==
    LET themed == IF Has(body, "theme") /\ body.theme # ""
                  THEN [prefs EXCEPT !.theme = body.theme] ELSE prefs
    IN IF Has(body, "notifications") /\ body.notifications # NoTask
       THEN [themed EXCEPT !.notifications = Spread(prefs.notifications,
                                                     body.notifications)]
       ELSE themed

PreferencesFrame == UNCHANGED <<tasks, nextId, ctasks, clock, AuthVars, inflight, provider>>

\* GET /api/preferences
get_preferences(caller) ==
    /\ resp' = IF caller \notin DOMAIN preferences
               THEN Response("get_preferences", caller, [id |-> 0], 404,
                             [success |-> FALSE, message |-> "User not found"])
               ELSE Response("get_preferences", caller, [id |-> 0], 200,
                             preferences[caller])
    /\ UNCHANGED preferences
    /\ PreferencesFrame

\* PUT /api/preferences
put_preferences(caller, body) ==
    /\ IF caller \notin DOMAIN preferences
       THEN /\ resp' = Response("put_preferences", caller, [body |-> body], 404,
                                [success |-> FALSE, message |-> "User not found"])
            /\ UNCHANGED preferences
       ELSE LET saved == MergePreferences(preferences[caller], body)
            IN /\ preferences' = [preferences EXCEPT ![caller] = saved]
               /\ resp' = Response("put_preferences", caller, [body |-> body], 200,
                                   saved)
    /\ PreferencesFrame

\* ------------------------------------------------ tokens and hashes (auth.ts)
\* what a call that throws gives its caller
Thrown(message) == [error |-> message]

\* whether btoa accepts a string: every character is in U+0000..U+00FF
IsLatin1(str) == str \notin {"U+674E"}

\* generateToken at instant now: btoa(JSON.stringify(payload)); btoa throws
\* InvalidCharacterError on a character outside Latin-1, otherwise atob and
\* JSON.parse give the payload back
generateToken(user, now) ==
    LET payload == [id |-> user.id, username |-> user.username,
                    email |-> user.email, exp |-> now + TokenTTL]
    IN IF IsLatin1(user.username) /\ IsLatin1(user.email)
       THEN [b64 |-> payload]
       ELSE Thrown("InvalidCharacterError")

\* verifyToken at instant now; NoTask is null.  A string that atob or
\* JSON.parse refuses has no b64 payload; a claim the payload lacks is
\* undefined in the user returned
verifyToken(token, now) ==
    IF ~Has(token, "b64")
    THEN NoTask
    ELSE LET payload == token.b64
         IN IF Has(payload, "exp") /\ payload.exp < now
            THEN NoTask
            ELSE Spread([k \in {"id", "username", "email"} \cap DOMAIN payload |-> payload[k]],
                        [createdAt |-> IF Has(payload, "createdAt")
                                       THEN payload.createdAt ELSE now])

\* hashPassword with the plain password in place of the digest
hashPassword_Plain(password) == password

\* hashPassword: the hex SHA-256 digest of password + 'salt', here the name of
\* that digest (two inputs have one digest only if they are equal, and no
\* digest is its own input)
hashPassword(password) == "sha256:" \o password \o "salt"

comparePassword(password, hash) == hashPassword(password) = hash

\* ------------------------------------- accounts (api.ts) and AuthProvider
\* this.users.find(u => u.email === email): the index found, 0 for undefined
FindByEmail(email) ==
    LET hits == {i \in 1..Len(users) : users[i].email = email}
    IN IF hits = {} THEN 0 ELSE CHOOSE i \in hits : \A j \in hits : i <= j

\* TaskAPI.login that tells an unknown email from a wrong password
api_login_TellsUnknownEmail(email, password) ==
    LET found == FindByEmail(email)
    IN IF found = 0
       THEN Thrown("No user with this email")
       ELSE IF ~comparePassword(password, users[found].password)
            THEN Thrown("Invalid credentials")
            ELSE LET userWithoutPassword == Without(users[found], "password")
                     token == generateToken(userWithoutPassword, clock)
                 IN IF Has(token, "error") THEN token
                    ELSE [user |-> userWithoutPassword, token |-> token]

\* TaskAPI.login: what it resolves to, or what it throws
api_login(email, password) ==
    LET found == FindByEmail(email)
    IN IF found = 0
       THEN Thrown("Invalid credentials")
       ELSE IF ~comparePassword(password, users[found].password)
            THEN Thrown("Invalid credentials")
            ELSE LET userWithoutPassword == Without(users[found], "password")
                     token == generateToken(userWithoutPassword, clock)
                 IN IF Has(token, "error") THEN token
                    ELSE [user |-> userWithoutPassword, token |-> token]

NoSession == [user |-> NoTask, token |-> NoTask]

AuthFrame == UNCHANGED <<tasks, nextId, ctasks, preferences, inflight, provider>>

\* what AuthProvider.login and AuthProvider.register do with the outcome of the
\* api call: the session and localStorage are written on success only
Settle(result) ==
    IF Has(result, "error")
    THEN UNCHANGED <<session, storedToken>>
    ELSE /\ session' = [user |-> result.user, token |-> result.token]
         /\ storedToken' = result.token

\* AuthProvider.register up to the await of hashPassword in TaskAPI.register:
\* the email is looked up, then the call waits for the digest
register(username, email, password) ==
    /\ \/ /\ FindByEmail(email) # 0
          /\ resp' = Response("register", NoUser,
                              [username |-> username, email |-> email,
                               password |-> password],
                              0, Thrown("User already exists with this email"))
          /\ UNCHANGED calls
       \/ /\ FindByEmail(email) = 0
          /\ Len(calls) < MaxInFlight
          /\ Len(users) + Len(calls) < MaxUsers
          /\ calls' = Append(calls, [username |-> username, email |-> email,
                                     password |-> password])
          /\ UNCHANGED resp
    /\ UNCHANGED <<users, session, storedToken, clock>>
    /\ AuthFrame

\* the rest of TaskAPI.register once the digest of call i is there, and of
\* AuthProvider.register once the api call has settled
register_hashed(i) ==
    /\ i \in 1..Len(calls)
    /\ LET call == calls[i]
           user == [id |-> clock, username |-> call.username, email |-> call.email,
                    password |-> hashPassword(call.password), createdAt |-> clock]
           userWithoutPassword == Without(user, "password")
           token == generateToken(userWithoutPassword, clock)
           result == IF Has(token, "error") THEN token
                     ELSE [user |-> userWithoutPassword, token |-> token]
       IN /\ users' = Append(users, user)
          /\ calls' = [k \in 1..(Len(calls) - 1) |->
                          IF k < i THEN calls[k] ELSE calls[k + 1]]
          /\ resp' = Response("register", NoUser, call, 0, result)
          /\ Settle(result)
    /\ UNCHANGED clock
    /\ AuthFrame

\* AuthProvider.login; TaskAPI.login writes nothing, so its await of
\* comparePassword is no place where another call could change its outcome
login(email, password) ==
    /\ LET result == api_login(email, password)
       IN /\ resp' = Response("login", NoUser,
                              [email |-> email, password |-> password], 0, result)
          /\ Settle(result)
    /\ UNCHANGED <<users, calls, clock>>
    /\ AuthFrame

\* AuthProvider.logout
logout ==
    /\ session' = NoSession
    /\ storedToken' = NoTask
    /\ resp' = Response("logout", NoUser, [id |-> 0], 0, NoTask)
    /\ UNCHANGED <<users, calls, clock>>
    /\ AuthFrame

\* a string that atob or JSON.parse refuses, by its text; '' is falsy
EmptyString == [raw |-> ""]

\* what AppContent renders: the LoginForm while there is no user
AppContent == IF session.user = NoTask THEN "LoginForm" ELSE "Dashboard"

\* localStorage is written from outside the AuthProvider (the user, another
\* script of the origin, an older build of the app)
writeStorage(token) ==
    /\ storedToken' = token
    /\ resp' = Response("writeStorage", NoUser, [token |-> token], 0, NoTask)
    /\ UNCHANGED <<users, calls, session, clock>>
    /\ AuthFrame

\* the page is loaded: the AuthProvider mounts with no user and no token, its
\* effect restores the session from localStorage; calls in flight are gone
restoreSession ==
    /\ IF storedToken \in {NoTask, EmptyString}
       THEN /\ session' = NoSession
            /\ UNCHANGED storedToken
       ELSE LET verifiedUser == verifyToken(storedToken, clock)
            IN IF verifiedUser # NoTask
               THEN /\ session' = [user |-> verifiedUser, token |-> storedToken]
                    /\ UNCHANGED storedToken
               ELSE /\ session' = NoSession
                    /\ storedToken' = NoTask
    /\ calls' = <<>>
    /\ resp' = Response("restoreSession", NoUser, [id |-> 0], 0, NoTask)
    /\ UNCHANGED <<users, clock>>
    /\ AuthFrame

\* a day passes
Day ==
    /\ clock < TokenTTL
    /\ clock' = clock + TokenTTL
    /\ UNCHANGED <<ctasks, resp>>
    /\ ClientFrame

\* ------------------------------------------------------------------ inputs
TaskIds == 1..MaxTasks

CreateBodies ==
    {[title |-> <<"a">>, priority |-> "medium", status |-> s] : s \in {"todo", "completed"}}
    \cup {[title |-> <<"a">>, priority |-> "medium", status |-> "todo", user |-> "u2"]}
    \cup {[title |-> <<"a">>, priority |-> "medium", status |-> "todo", dueDate |-> d] :
             d \in {NullDate, Now - 1, Now + 1}}

UpdateBodies ==
    {[status |-> "completed"], [status |-> "todo"], [user |-> "u2"], [isArchived |-> TRUE]}

\* the narrower inputs of SpecService
ServiceCreateBodies == {[title |-> <<"a">>, priority |-> "medium", status |-> "todo"]}

ServiceUpdateBodies == {[status |-> "completed"], [isArchived |-> TRUE]}

ClientTaskData ==
    {[title |-> <<"a">>, description |-> <<"b">>, priority |-> "medium", status |-> "todo"],
     [title |-> <<"a">>, description |-> <<"b">>, priority |-> "medium", status |-> "todo",
      userId |-> "u2"]}

ClientUpdates == {[status |-> "completed"], [userId |-> "u2"]}

ClientIds == 1..MaxClock

NoResponse == Response("none", NoUser, [id |-> 0], 0, NoTask)

\* every user has the preferences document light, all notifications on, and
\* the server is serving no request
InitIdle ==
    /\ preferences = [u \in Users |-> [theme |-> "light",
                                       notifications |-> [email |-> TRUE, push |-> TRUE]]]
    /\ inflight = <<>>
    /\ provider = [tasks |-> <<>>, loading |-> FALSE, error |-> NoTask, awaiting |-> <<>>]

\* nobody registered, nobody signed in, no token kept
InitAuth ==
    /\ users = <<>>
    /\ calls = <<>>
    /\ session = [user |-> NoTask, token |-> NoTask]
    /\ storedToken = NoTask

Init ==
    /\ tasks = <<>>
    /\ nextId = 1
    /\ ctasks = <<>>
    /\ clock = 1
    /\ InitAuth
    /\ InitIdle
    /\ resp = NoResponse

ServiceNext(bodies, updates) ==
    \/ \E u \in Users, b \in bodies : createTask(u, b)
    \/ \E u \in Users, i \in TaskIds : getTask(u, i)
    \/ \E u \in Users, i \in TaskIds, b \in updates : updateTask(u, i, b)
    \/ \E u \in Users, i \in TaskIds : deleteTask(u, i)
    \/ \E u \in Users, i \in TaskIds : toggleArchiveTask(u, i)
    \/ \E u \in Users, ids \in SUBSET TaskIds, b \in updates :
          bulkUpdateTasks(u, ids, b)
    \/ \E u \in Users : getTaskStats(u)

Next == ServiceNext(CreateBodies, UpdateBodies)

\* the task service of the server
Spec == Init /\ [][Next]_vars

NextService == ServiceNext(ServiceCreateBodies, ServiceUpdateBodies)

\* the task service with fewer request bodies, so that more tasks fit
SpecService == Init /\ [][NextService]_vars

\* the inputs of the routes: ids and bodies that pass the validators and ones
\* that fail them
RouteIds == TaskIds \cup {NotAnObjectId}

RouteCreateBodies ==
    ServiceCreateBodies
    \cup {[priority |-> "medium", status |-> "todo"],
          [title |-> <<"a">>, priority |-> "urgent", status |-> "todo"]}

RouteUpdateBodies == {[status |-> "completed"], [status |-> "done"]}

RouteQueries == {[limit |-> 1], [limit |-> 0]}

BulkBodies ==
    {[taskIds |-> [array |-> ids], updates |-> [object |-> [status |-> "completed"]]] :
        ids \in {{}, {1}, {1, 2}, {NotAnObjectId, 1}}}
    \cup {[updates |-> [object |-> [status |-> "completed"]]],
          [taskIds |-> [string |-> "1"], updates |-> [object |-> [status |-> "completed"]]],
          [taskIds |-> [array |-> {1}]],
          [taskIds |-> [array |-> {1}], updates |-> [array |-> [isArchived |-> TRUE]]]}

NextRoutes ==
    \/ \E u \in Users, q \in RouteQueries : getTasks(u, q)
    \/ \E u \in Users, b \in RouteCreateBodies : post_tasks(u, b)
    \/ \E u \in Users, i \in RouteIds : get_task(u, i)
    \/ \E u \in Users, i \in RouteIds, b \in RouteUpdateBodies : put_task(u, i, b)
    \/ \E u \in Users, i \in RouteIds : delete_task(u, i)
    \/ \E u \in Users, i \in RouteIds : patch_archive(u, i)
    \/ \E u \in Users, b \in BulkBodies : patch_bulk(u, b)

\* the task routes with their validators
SpecRoutes == Init /\ [][NextRoutes]_vars

\* the preferences documents of the data model
Themes == {"light", "dark"}

Notifications == [email : BOOLEAN, push : BOOLEAN]

PreferencesBodies ==
    {[theme |-> t] : t \in Themes \cup {""}}
    \cup {[notifications |-> n] :
             n \in {NoTask, << >>, [email |-> FALSE], [push |-> TRUE],
                    [email |-> TRUE, push |-> FALSE]}}
    \cup {[theme |-> "dark", notifications |-> [push |-> FALSE]]}

\* some users have a User document, with any preferences
InitPreferences ==
    /\ tasks = <<>>
    /\ nextId = 1
    /\ ctasks = <<>>
    /\ clock = 1
    /\ InitAuth
    /\ \E present \in SUBSET Users :
          preferences \in [present -> [theme : Themes, notifications : Notifications]]
    /\ inflight = <<>>
    /\ provider = [tasks |-> <<>>, loading |-> FALSE, error |-> NoTask, awaiting |-> <<>>]
    /\ resp = NoResponse

NextPreferences ==
    \/ \E u \in Users : get_preferences(u)
    \/ \E u \in Users, b \in PreferencesBodies : put_preferences(u, b)

\* the preferences routes
SpecPreferences == InitPreferences /\ [][NextPreferences]_vars

\* patches of one field and of several, on the server and in the browser
PatchBodies ==
    ServiceUpdateBodies \cup {[title |-> <<"b">>, priority |-> "high"]}

ClientPatches ==
    {[status |-> "completed"], [title |-> <<"b">>, priority |-> "high"]}

\* the server and the simulated store of the browser share nothing: a run
\* exercises the one or the other
NextPatch ==
    \/ \E u \in Users, b \in ServiceCreateBodies :
          ctasks = <<>> /\ createTask(u, b)
    \/ \E u \in Users, i \in TaskIds, b \in PatchBodies :
          ctasks = <<>> /\ updateTask(u, i, b)
    \/ \E u \in Users, d \in ClientTaskData :
          tasks = <<>> /\ api_createTask(u, d) /\ UNCHANGED provider
    \/ \E u \in Users, i \in ClientIds, d \in ClientPatches :
          tasks = <<>> /\ api_updateTask(u, i, d) /\ UNCHANGED provider
    \/ tasks = <<>> /\ Tick

\* creations and updates, on the server and in the store of the browser
SpecPatch == Init /\ [][NextPatch]_vars

\* what the components hand to the TaskProvider
ProviderTaskData ==
    {[title |-> <<"a">>, description |-> <<"b">>, priority |-> "medium", status |-> "todo"]}

NextProvider ==
    \/ TaskProvider_getTasks
    \/ \E d \in ProviderTaskData : TaskProvider_createTask(d)
    \/ \E i \in ClientIds, d \in ClientPatches : TaskProvider_updateTask(i, d)
    \/ \E i \in ClientIds : TaskProvider_deleteTask(i)
    \/ TaskProvider_resume
    \/ Tick

\* the TaskProvider over the store of the browser
SpecProvider == Init /\ [][NextProvider]_vars

NextConcurrent ==
    \/ \E u \in Users, b \in ServiceCreateBodies : createTask(u, b)
    \/ \E u \in Users, i \in TaskIds : getTask(u, i)
    \/ \E u \in Users, i \in TaskIds : deleteTask(u, i)
    \/ \E u \in Users, i \in TaskIds : toggleArchiveTask_findOne(u, i)
    \/ \E k \in 1..MaxRequests : toggleArchiveTask_save(k)
    \/ \E u \in Users, i \in TaskIds, b \in ServiceUpdateBodies :
          updateTask_findOne(u, i, b)
    \/ \E k \in 1..MaxRequests : updateTask_findByIdAndUpdate(k)

\* the task service with the requests of several connections interleaved at
\* the awaits of toggleArchiveTask and updateTask
SpecConcurrent == Init /\ [][NextConcurrent]_vars

NextClient ==
    \/ \E u \in Users, d \in ClientTaskData :
          api_createTask(u, d) /\ UNCHANGED provider
    \/ \E u \in Users, i \in ClientIds, d \in ClientUpdates :
          api_updateTask(u, i, d) /\ UNCHANGED provider
    \/ \E u \in Users, i \in ClientIds :
          api_deleteTask(u, i) /\ UNCHANGED provider
    \/ \E u \in Users : api_getTasks(u) /\ UNCHANGED provider
    \/ Tick

\* the simulated store of the browser
SpecClient == Init /\ [][NextClient]_vars

Usernames == {"alice", "bob", "U+674E"}

Emails == {"a@x.com", "b@x.com"}

Passwords == {"Passw0rd", "hunter2"}

Registrations ==
    {[username |-> n, email |-> e, password |-> p] :
        n \in Usernames, e \in Emails, p \in Passwords}

\* the narrower inputs of SpecSession
SessionRegistrations ==
    {[username |-> "alice", email |-> "a@x.com", password |-> "Passw0rd"],
     [username |-> "bob", email |-> "a@x.com", password |-> "hunter2"],
     [username |-> "U+674E", email |-> "b@x.com", password |-> "hunter2"]}

AuthNext(registrations) ==
    \/ \E r \in registrations : register(r.username, r.email, r.password)
    \/ \E i \in 1..MaxInFlight : register_hashed(i)
    \/ \E e \in Emails, p \in Passwords : login(e, p)
    \/ logout
    \/ restoreSession
    \/ Tick
    \/ Day

NextAuth == AuthNext(Registrations)

\* accounts and the session of the browser
SpecAuth == Init /\ [][NextAuth]_vars

NextSession == AuthNext(SessionRegistrations)

\* accounts and the session with fewer registrations, so that more users fit
SpecSession == Init /\ [][NextSession]_vars

\* what localStorage may hold that the AuthProvider did not write: '', a string
\* that is no base64 of JSON, the base64 of claims without exp and of claims
\* without id
ForeignTokens ==
    {EmptyString, [raw |-> "garbage"],
     [b64 |-> [id |-> 1, username |-> "alice", email |-> "a@x.com"]],
     [b64 |-> [username |-> "alice", email |-> "a@x.com", exp |-> 2 * TokenTTL]]}

NextStartup ==
    \/ NextSession
    \/ \E t \in ForeignTokens : writeStorage(t)

\* the session of a browser whose localStorage other parties write too
SpecStartup == Init /\ [][NextStartup]_vars

\* the users a token is issued for
TokenUsers ==
    {[id |-> i, username |-> n, email |-> e, createdAt |-> i] :
        i \in 1..MaxClock, n \in Usernames, e \in Emails}

\* generateToken applied to a user now; the token is kept
issueToken(user) ==
    /\ LET token == generateToken(user, clock)
       IN /\ resp' = Response("generateToken", NoUser, [user |-> user, now |-> clock],
                              0, token)
          /\ storedToken' = IF Has(token, "error") THEN storedToken ELSE token
    /\ UNCHANGED <<users, calls, session, clock>>
    /\ AuthFrame

\* verifyToken applied to the token kept, now
checkToken ==
    /\ storedToken # NoTask
    /\ resp' = Response("verifyToken", NoUser, [token |-> storedToken, now |-> clock],
                        0, verifyToken(storedToken, clock))
    /\ UNCHANGED <<users, calls, session, storedToken, clock>>
    /\ AuthFrame

NextToken ==
    \/ \E u \in TokenUsers : issueToken(u)
    \/ checkToken
    \/ Tick
    \/ Day

\* tokens issued and verified as time passes
SpecToken == Init /\ [][NextToken]_vars

NextVerify ==
    \/ NextToken
    \/ \E t \in ForeignTokens : writeStorage(t)

\* tokens issued here or written by others, and verified as time passes
SpecVerify == Init /\ [][NextVerify]_vars

\* ------------------------------------------------- listings of a given store
\* a query string or filter object with an optional key
Opt(name, values) == {<<>>} \cup {[k \in {name} |-> v] : v \in values}

\* a task as both back ends store it when it was the i-th to be created, at
\* instant i: the server document (archived or not) and the client object
ListedDoc(i, body) ==
    PreSave(Spread(NewDoc(i, body), [createdAt |-> i, updatedAt |-> i]), TRUE)

ListedClientTask(i, body) ==
    [id |-> i, userId |-> body.user, title |-> body.title,
     description |-> IF Has(body, "description") THEN body.description ELSE <<>>,
     priority |-> body.priority, status |-> body.status,
     createdAt |-> i, updatedAt |-> i]

Stored(bodies) ==
    /\ tasks = [i \in 1..Len(bodies) |-> ListedDoc(i, bodies[i])]
    /\ nextId = Len(bodies) + 1
    /\ ctasks = [i \in 1..Len(bodies) |-> ListedClientTask(i, bodies[i])]
    /\ clock = Len(bodies) + 1
    /\ InitAuth
    /\ InitIdle
    /\ resp = NoResponse

SeqsUpTo(S, n) == UNION {[1..k -> S] : k \in 0..n}

\* tasks to filter: two owners, three texts, three settings of the other paths
FilterTexts ==
    {[title |-> <<"a">>],
     [title |-> <<"b">>, description |-> <<"A", "b">>],
     [title |-> <<"B">>, description |-> <<"a">>]}

FilterPaths ==
    {[isArchived |-> FALSE, priority |-> "high", status |-> "todo"],
     [isArchived |-> TRUE, priority |-> "high", status |-> "todo"],
     [isArchived |-> FALSE, priority |-> "low", status |-> "completed"]}

FilterTasks ==
    {Spread(Spread([user |-> u], t), f) : u \in Users, t \in FilterTexts, f \in FilterPaths}

FilterQueries ==
    {Spread(Spread(Spread(Spread(Spread(s, p), t), a), g), l) :
        s \in Opt("search", {<<>>, <<"a">>, <<".">>}),
        p \in Opt("priority", {"high"}),
        t \in Opt("status", {"todo"}),
        a \in Opt("includeArchived", {"true"}),
        g \in Opt("page", {2}),
        l \in Opt("limit", {1})}

FilterOptions ==
    {[search |-> s, priority |-> p, status |-> t, sortBy |-> "createdAt", sortOrder |-> "desc"] :
        s \in {<<>>, <<"a">>, <<".">>}, p \in {"", "high"}, t \in {"", "todo"}}

InitFilter == \E bodies \in SeqsUpTo(FilterTasks, MaxListed) : Stored(bodies)

\* one listing of a store: a listing writes nothing, so a second one sees what
\* the first one saw
NextFilter ==
    \/ resp = NoResponse /\ \E u \in Users, q \in FilterQueries : getTasks(u, q)
    \/ resp = NoResponse /\ \E u \in Users, f \in FilterOptions : Dashboard(u, f)

\* filtered and paginated listings
SpecFilter == InitFilter /\ [][NextFilter]_vars

\* tasks to sort: one owner, every priority and status
SortTasks ==
    {[user |-> "u1", title |-> <<"a">>, priority |-> p, status |-> t] :
        p \in Priorities, t \in Statuses}

SortQueries ==
    {Spread(b, o) : b \in Opt("sortBy", SortFields), o \in Opt("sortOrder", SortOrders)}

SortOptions ==
    {[search |-> <<>>, priority |-> "", status |-> "", sortBy |-> b, sortOrder |-> o] :
        b \in SortFields, o \in SortOrders}

InitSort == \E bodies \in SeqsUpTo(SortTasks, MaxSorted) : Stored(bodies)

NextSort ==
    \/ resp = NoResponse /\ \E q \in SortQueries : getTasks("u1", q)
    \/ resp = NoResponse /\ \E f \in SortOptions : Dashboard("u1", f)

\* sorted listings
SpecSort == InitSort /\ [][NextSort]_vars

\* a large collection of one owner, all created by the same request body in
\* the same instant
PageQueries ==
    {Spread(g, l) : g \in Opt("page", {0, 1, 3}), l \in Opt("limit", {0, 1, 100, 101})}

InitPage ==
    \E n \in 0..MaxTotal :
        /\ tasks = [i \in 1..n |-> PreSave(NewDoc(i, [user |-> "u1", title |-> <<"a">>]), FALSE)]
        /\ nextId = n + 1
        /\ ctasks = <<>>
        /\ clock = 1
        /\ InitAuth
        /\ InitIdle
        /\ resp = NoResponse

NextPage ==
    /\ resp = NoResponse
    /\ \E q \in PageQueries : getTasks("u1", q)

\* page arithmetic of listings
SpecPage == InitPage /\ [][NextPage]_vars

\* tasks to archive, stored an instant before the request: either owner, with
\* and without completedAt under either status (updateTask leaves all four
\* behind), archived or not
ArchiveTasks ==
    {Spread([user |-> u, title |-> <<"a">>, priority |-> "medium", status |-> t,
             isArchived |-> a], c) :
        u \in Users, t \in {"todo", "completed"}, a \in BOOLEAN,
        c \in Opt("completedAt", {Now - 1})}

ArchiveDoc(i, body) ==
    Spread(NewDoc(i, body), [createdAt |-> Now - 1, updatedAt |-> Now - 1])

InitArchive ==
    \E bodies \in SeqsUpTo(ArchiveTasks, MaxListed) :
        /\ tasks = [i \in 1..Len(bodies) |-> ArchiveDoc(i, bodies[i])]
        /\ nextId = Len(bodies) + 1
        /\ ctasks = <<>>
        /\ clock = 1
        /\ InitAuth
        /\ InitIdle
        /\ resp = NoResponse

NextArchive ==
    \/ \E u \in Users, i \in 1..MaxListed : toggleArchiveTask(u, i)
    \/ \E u \in Users, i \in 1..MaxListed : getTask(u, i)

\* archive toggles of stored tasks
SpecArchive == InitArchive /\ [][NextArchive]_vars

\* ------------------------------------------------------------------ claims

\* C1: in every reachable state of the task service every stored task has
\* status 'completed' if and only if its completedAt is set.
C1_CompletedIffCompletedAt ==
    \A id \in DOMAIN tasks :
        (tasks[id].status = "completed") <=> Has(tasks[id], "completedAt")

\* what does hold of the save path: a task comes out of createTask with
\* completedAt set exactly when its status is 'completed'
C1_HoldsOnCreate ==
    resp.op = "createTask" =>
        ((resp.data.status = "completed") <=> Has(resp.data, "completedAt"))

Rejected(r) == Has(r.data, "error") /\ r.data.error = "Task not found"

NotFound(r) == r.code = 404 /\ r.data = NoTask

\* C2 on the server: a getTask, updateTask or deleteTask by a user who does
\* not own the task with that id answers 404 without data and changes nothing
C2_ServerIsolation ==
    [][\A a \in Users, id \in TaskIds :
          (id \in DOMAIN tasks /\ tasks[id].user # a) =>
              /\ getTask(a, id) => NotFound(resp') /\ tasks' = tasks
              /\ (resp'.op = "updateTask" /\ updateTask(a, id, resp'.args.body))
                     => NotFound(resp') /\ tasks' = tasks
              /\ deleteTask(a, id) => NotFound(resp') /\ tasks' = tasks]_vars

\* C2: for two distinct users A and B and a task owned by B, a read, update or
\* delete by A with that task's id answers 'Task not found', returns no task
\* data and leaves the store unchanged, on the server and in the client store.
C2_OwnershipIsolation ==
    [][/\ \A a \in Users, id \in TaskIds :
             (id \in DOMAIN tasks /\ tasks[id].user # a) =>
                 /\ getTask(a, id) => NotFound(resp') /\ tasks' = tasks
                 /\ (resp'.op = "updateTask" /\ updateTask(a, id, resp'.args.body))
                        => NotFound(resp') /\ tasks' = tasks
                 /\ deleteTask(a, id) => NotFound(resp') /\ tasks' = tasks
       /\ \A a \in Users, id \in ClientIds :
             (\E i \in 1..Len(ctasks) : ctasks[i].id = id /\ ctasks[i].userId # a) =>
                 /\ (resp'.op = "api.updateTask"
                        /\ api_updateTask(a, id, resp'.args.updates))
                        => Rejected(resp') /\ ctasks' = ctasks
                 /\ api_deleteTask(a, id) => Rejected(resp') /\ ctasks' = ctasks]_vars

\* C3: the owner of a task never changes after its creation, whatever update,
\* bulk update or archive toggle is applied to it.
C3_OwnerImmutable ==
    [][\A id \in (DOMAIN tasks) \cap (DOMAIN tasks') :
          tasks'[id].user = tasks[id].user]_vars

\* C4: the task that a create request stores is owned by the caller, whatever
\* owner field (user on the server, userId in the client's taskData) the
\* request carries.
C4_OwnerFromCaller ==
    /\ resp.op = "createTask" => tasks[resp.data._id].user = resp.caller
    /\ resp.op = "api.createTask" => ctasks[Len(ctasks)].userId = resp.caller

\* the server half of C4
C4_ServerOwnerFromCaller ==
    resp.op = "createTask" => tasks[resp.data._id].user = resp.caller

\* C5: a bulk update applies the patch to exactly the tasks among the ids that
\* the caller owns, leaves every other task as it was and reports as
\* modifiedCount the number of ids the caller owns.
C5_BulkUpdateOwnTasksOnly ==
    [][(/\ resp'.op = "bulkUpdateTasks"
        /\ resp'.code = 200
        /\ bulkUpdateTasks(resp'.caller, resp'.args.taskIds, resp'.args.updates))
       => LET own == {id \in DOMAIN tasks :
                         id \in resp'.args.taskIds /\ tasks[id].user = resp'.caller}
              patch == resp'.args.updates
          IN /\ DOMAIN tasks' = DOMAIN tasks
             /\ \A id \in own :
                   /\ \A f \in DOMAIN patch : tasks'[id][f] = patch[f]
                   /\ \A f \in (DOMAIN tasks[id]) \ ((DOMAIN patch) \cup {"updatedAt"}) :
                         tasks'[id][f] = tasks[id][f]
             /\ \A id \in (DOMAIN tasks) \ own : tasks'[id] = tasks[id]
             /\ resp'.data.modifiedCount = Cardinality(own)]_vars

\* a bulk update of a task of the caller and a task of another user that
\* modified one record
C5_Witness ==
    /\ resp.op = "bulkUpdateTasks"
    /\ resp.code = 200
    /\ resp.args.updates = [status |-> "completed"]
    /\ resp.data.modifiedCount = 1
    /\ \E i, j \in resp.args.taskIds \cap DOMAIN tasks :
          /\ tasks[i].user = resp.caller /\ tasks[i].status = "completed"
          /\ tasks[j].user # resp.caller /\ tasks[j].status = "todo"

OrdinalSorted(list, sortBy, sortOrder) ==
    LET Rank(t) == IF sortBy = "priority"
                   THEN CASE t.priority = "low" -> 1 [] t.priority = "medium" -> 2
                          [] t.priority = "high" -> 3
                   ELSE CASE t.status = "todo" -> 1 [] t.status = "in-progress" -> 2
                          [] t.status = "completed" -> 3
    IN \A i, j \in 1..Len(list) :
          i < j => IF sortOrder = "asc"
                   THEN Rank(list[i]) <= Rank(list[j])
                   ELSE Rank(list[i]) >= Rank(list[j])

\* C6: a listing sorted by priority or by status is in the order of the ordinal
\* mapping low < medium < high, todo < in-progress < completed (ascending or
\* descending as asked), in a getTasks response and in the Dashboard's view.
C6_OrdinalSort ==
    /\ (/\ resp.op = "getTasks"
        /\ resp.code = 200
        /\ Param(resp.args.query, "sortBy") \in {"priority", "status"})
       => OrdinalSorted(resp.data.data, resp.args.query.sortBy,
                        Param(resp.args.query, "sortOrder"))
    /\ (resp.op = "Dashboard" /\ resp.args.filters.sortBy \in {"priority", "status"})
       => OrdinalSorted(resp.data.list, resp.args.filters.sortBy,
                        resp.args.filters.sortOrder)

\* the client half of C6
C6_DashboardOrdinalSort ==
    (resp.op = "Dashboard" /\ resp.args.filters.sortBy \in {"priority", "status"})
    => OrdinalSorted(resp.data.list, resp.args.filters.sortBy,
                     resp.args.filters.sortOrder)

\* the Dashboard shows {low, high, medium} by priority desc as
\* [high, medium, low]
C6_DashboardExample ==
    /\ resp.op = "Dashboard"
    /\ resp.args.filters.sortBy = "priority"
    /\ resp.args.filters.sortOrder = "desc"
    /\ Len(ctasks) = 3
    /\ [i \in 1..3 |-> ctasks[i].priority] = <<"low", "high", "medium">>
    /\ [i \in 1..3 |-> resp.data.list[i].priority] = <<"high", "medium", "low">>

\* C7: in every successful getTasks response total is the number of the
\* caller's tasks that satisfy the query before skip and limit, the page has
\* at most limit tasks, each of them satisfying the query, and count is the
\* length of the page.
C7_TotalCountLimit ==
    (resp.op = "getTasks" /\ resp.code = 200) =>
        LET q == resp.args.query
            filtered == {id \in DOMAIN tasks : QueryMatches(tasks[id], resp.caller, q)}
            page == resp.data.data
        IN /\ resp.data.total = Cardinality(filtered)
           /\ Len(page) <= resp.data.pagination.limit
           /\ resp.data.count = Len(page)
           /\ \A i \in 1..Len(page) : page[i]._id \in filtered
           /\ \A i, j \in 1..Len(page) : page[i]._id = page[j]._id => i = j

\* the second page of one task out of two that match
C7_Witness ==
    /\ resp.op = "getTasks"
    /\ resp.code = 200
    /\ resp.data.pagination = [page |-> 2, limit |-> 1, pages |-> 2]
    /\ resp.data.total = 2
    /\ resp.data.count = 1
    /\ Len(resp.data.data) = 1

\* C8: a getTasks request whose limit is outside 1..100 or whose page is below
\* 1 is answered 400 by validation without a listing; an accepted request is
\* answered with pages = ceil(total / limit), the least number of pages of
\* limit tasks that hold total tasks.
C8_PaginationBounds ==
    resp.op = "getTasks" =>
        LET q == resp.args.query
        IN /\ (\/ Has(q, "limit") /\ (q.limit < 1 \/ q.limit > 100)
               \/ Has(q, "page") /\ q.page < 1)
              => /\ resp.code = 400
                 /\ resp.data = [message |-> "Validation failed"]
           /\ resp.code = 200 =>
                 LET pages == resp.data.pagination.pages
                     limit == resp.data.pagination.limit
                 IN /\ pages * limit >= resp.data.total
                    /\ (pages - 1) * limit < resp.data.total

\* limit=100, page=1 over 250 matching tasks: 3 pages, 100 tasks returned
C8_Witness ==
    /\ resp.op = "getTasks"
    /\ resp.code = 200
    /\ resp.args.query = [page |-> 1, limit |-> 100]
    /\ resp.data.total = 250
    /\ resp.data.count = 100
    /\ resp.data.pagination.pages = 3

\* limit=101 is turned away
C8_RejectedExample ==
    /\ resp.op = "getTasks"
    /\ resp.args.query = [limit |-> 101]
    /\ resp.code = 400

\* the ids of the caller's tasks that the stated filter lets through
LiteralFilter(caller, q) ==
    {id \in DOMAIN tasks :
        /\ tasks[id].user = caller
        /\ \/ ~Has(q, "search")
           \/ q.search = <<>>
           \/ IncludesIgnoreCase(tasks[id].title, q.search)
           \/ Has(tasks[id], "description")
                 /\ IncludesIgnoreCase(tasks[id].description, q.search)
        /\ Has(q, "priority") => tasks[id].priority = q.priority
        /\ Has(q, "status") => tasks[id].status = q.status
        /\ tasks[id].isArchived => (Has(q, "includeArchived") /\ q.includeArchived = "true")}

LiteralClientFilter(caller, f) ==
    {i \in 1..Len(ctasks) :
        /\ ctasks[i].userId = caller
        /\ \/ f.search = <<>>
           \/ IncludesIgnoreCase(ctasks[i].title, f.search)
           \/ IncludesIgnoreCase(ctasks[i].description, f.search)
        /\ f.priority = "" \/ ctasks[i].priority = f.priority
        /\ f.status = "" \/ ctasks[i].status = f.status}

\* C9: the tasks a listing filters in are exactly the caller's tasks of which
\* search (if not empty) is a case-insensitive substring of the title or of
\* the description, whose priority and status are the ones asked for (if
\* any), and which are not archived unless includeArchived is true: total
\* counts them and every listed task is one of them, in a getTasks response;
\* the Dashboard's view lists exactly them.
C9_FilteredSet ==
    /\ (resp.op = "getTasks" /\ resp.code = 200) =>
          LET filtered == LiteralFilter(resp.caller, resp.args.query)
          IN /\ resp.data.total = Cardinality(filtered)
             /\ \A i \in 1..Len(resp.data.data) : resp.data.data[i]._id \in filtered
    /\ resp.op = "Dashboard" =>
          {resp.data.list[i].id : i \in 1..Len(resp.data.list)}
              = {ctasks[i].id : i \in LiteralClientFilter(resp.caller, resp.args.filters)}

\* the client half of C9
C9_DashboardFilteredSet ==
    resp.op = "Dashboard" =>
        {resp.data.list[i].id : i \in 1..Len(resp.data.list)}
            = {ctasks[i].id : i \in LiteralClientFilter(resp.caller, resp.args.filters)}

\* C9 on the server for a search without the character ".": the filtered set
\* is the stated one
C9_ServerFilteredSetPlainSearch ==
    (/\ resp.op = "getTasks"
     /\ resp.code = 200
     /\ \A k \in 1..Len(Param(resp.args.query, "search")) : resp.args.query.search[k] # ".")
    => LET filtered == LiteralFilter(resp.caller, resp.args.query)
       IN /\ resp.data.total = Cardinality(filtered)
          /\ \A i \in 1..Len(resp.data.data) : resp.data.data[i]._id \in filtered

\* C10: the total of a stats response that carries statistics is the number
\* of the caller's tasks that are not archived, and an archive toggle removes
\* no record.
C10_StatsCountNonArchived ==
    [][/\ (resp'.op = "getTaskStats" /\ resp'.code = 200) =>
             resp'.data.total =
                 Cardinality({id \in DOMAIN tasks' :
                                 tasks'[id].user = resp'.caller /\ ~tasks'[id].isArchived})
       /\ resp'.op = "toggleArchiveTask" => DOMAIN tasks' = DOMAIN tasks]_vars

\* all the tasks of a user are archived: the stats total is 0 and the records
\* are still stored
C10_Witness ==
    /\ resp.op = "getTaskStats"
    /\ resp.code = 200
    /\ resp.data.total = 0
    /\ Cardinality({id \in DOMAIN tasks : tasks[id].user = resp.caller}) = 2
    /\ \A id \in DOMAIN tasks : tasks[id].user = resp.caller => tasks[id].isArchived

\* the caller's tasks that are overdue as stated: not archived, due date set
\* and in the past, status not 'completed'
StatedOverdue(caller) ==
    {id \in DOMAIN tasks :
        /\ tasks[id].user = caller
        /\ ~tasks[id].isArchived
        /\ Has(tasks[id], "dueDate") /\ tasks[id].dueDate # NullDate
        /\ tasks[id].dueDate < Now
        /\ tasks[id].status # "completed"}

\* C11: the overdue count of a stats response that carries statistics is the
\* number of the caller's non-archived tasks whose due date is set and in the
\* past and whose status is not 'completed'; a task without a due date is not
\* counted.
C11_OverdueCount ==
    (resp.op = "getTaskStats" /\ resp.code = 200) =>
        resp.data.overdue = Cardinality(StatedOverdue(resp.caller))

\* the isOverdue virtual of a stored task says what C11 states of one task
C11_VirtualIsOverdue ==
    \A id \in DOMAIN tasks :
        IsOverdue(tasks[id]) <=> id \in StatedOverdue(tasks[id].user) \/
                                 (tasks[id].isArchived /\ Has(tasks[id], "dueDate")
                                  /\ tasks[id].dueDate # NullDate
                                  /\ tasks[id].dueDate < Now
                                  /\ tasks[id].status # "completed")

\* C11 for callers all of whose tasks carry a due date
C11_OverdueCountWithDates ==
    (/\ resp.op = "getTaskStats"
     /\ resp.code = 200
     /\ \A id \in DOMAIN tasks :
           (tasks[id].user = resp.caller /\ ~tasks[id].isArchived)
               => (Has(tasks[id], "dueDate") /\ tasks[id].dueDate # NullDate))
    => resp.data.overdue = Cardinality(StatedOverdue(resp.caller))

\* what a successful toggleArchiveTask leaves alone: every path of the task
\* outside `written`, every other task, and the response is the saved task
ToggleWritesOnly(written) ==
    (resp'.op = "toggleArchiveTask" /\ resp'.code = 200) =>
        LET id == resp'.args.id
        IN /\ tasks[id].user = resp'.caller
           /\ tasks'[id].isArchived = ~tasks[id].isArchived
           /\ DOMAIN tasks'[id] = DOMAIN tasks[id]
           /\ \A f \in (DOMAIN tasks[id]) \ written : tasks'[id][f] = tasks[id][f]
           /\ \A j \in (DOMAIN tasks) \ {id} : tasks'[j] = tasks[j]
           /\ DOMAIN tasks' = DOMAIN tasks
           /\ resp'.data = tasks'[id]

\* C12 as stated: a toggleArchive by the owner flips isArchived and leaves
\* status, completedAt, owner and every other field of the task as it was.
C12_ToggleLeavesAllOtherFields ==
    [][ToggleWritesOnly({"isArchived"})]_vars

\* C12 amended: a toggleArchive by the owner flips isArchived, sets updatedAt
\* to the instant of the save and leaves status, completedAt, owner and every
\* other field of the task as it was; a second toggle so restores the flag.
C12_ToggleLeavesOtherFieldsButUpdatedAt ==
    [][/\ ToggleWritesOnly({"isArchived", "updatedAt"})
       /\ (resp'.op = "toggleArchiveTask" /\ resp'.code = 200) =>
              tasks'[resp'.args.id].updatedAt = Now]_vars

\* a completed task without completedAt and a todo task with completedAt have
\* been toggled back to not archived, still as they were
C12_Witness ==
    /\ resp.op = "toggleArchiveTask"
    /\ resp.code = 200
    /\ resp.data.isArchived = FALSE
    /\ resp.data.status = "completed"
    /\ ~Has(resp.data, "completedAt")
    /\ resp.data.updatedAt = Now
    /\ \E j \in DOMAIN tasks :
          /\ tasks[j].status = "todo" /\ Has(tasks[j], "completedAt")
          /\ tasks[j].isArchived /\ tasks[j].updatedAt = Now

\* C13: a register call made while a stored user has the same username or the
\* same email fails with the conflict error, and no user is stored and no
\* token issued for it.
C13_ConflictOnUsernameOrEmail ==
    [][\A n \in Usernames, e \in Emails, p \in Passwords :
          (/\ register(n, e, p)
           /\ \E i \in 1..Len(users) : users[i].username = n \/ users[i].email = e)
          => /\ resp'.op = "register"
             /\ resp'.data = Thrown("User already exists with this email")
             /\ calls' = calls
             /\ users' = users
             /\ session' = session /\ storedToken' = storedToken]_vars

\* the email half of C13
C13_ConflictOnEmail ==
    [][\A n \in Usernames, e \in Emails, p \in Passwords :
          (register(n, e, p) /\ \E i \in 1..Len(users) : users[i].email = e)
          => /\ resp'.op = "register"
             /\ resp'.data = Thrown("User already exists with this email")
             /\ calls' = calls
             /\ users' = users
             /\ session' = session /\ storedToken' = storedToken]_vars

\* no two stored users share a username, whichever way they were registered
C13_UniqueUsernames ==
    \A i, j \in 1..Len(users) : users[i].username = users[j].username => i = j

\* the stored users whose register(username, email, password) succeeded with
\* this email and password: they were stored and a token was issued for them
RegisteredWith(email, password) ==
    {i \in 1..Len(users) :
        /\ users[i].email = email
        /\ users[i].password = hashPassword(password)
        /\ ~Has(generateToken(users[i], users[i].createdAt), "error")}

SameIdentity(user, stored) ==
    /\ user.id = stored.id
    /\ user.username = stored.username
    /\ user.email = stored.email

\* C14: a login with the email and password of a register that succeeded
\* succeeds and returns a user with the id, username and email that register
\* returned.
C14_RegisterLoginRoundTrip ==
    resp.op = "login" =>
        \A i \in RegisteredWith(resp.args.email, resp.args.password) :
            /\ ~Has(resp.data, "error")
            /\ SameIdentity(resp.data.user, users[i])

\* C14 while no two stored users share an email
C14_RoundTripUniqueEmail ==
    (/\ resp.op = "login"
     /\ \A i, j \in 1..Len(users) : users[i].email = users[j].email => i = j)
    => \A i \in RegisteredWith(resp.args.email, resp.args.password) :
           /\ ~Has(resp.data, "error")
           /\ SameIdentity(resp.data.user, users[i])

\* register("alice", "a@x.com", "Passw0rd") a day ago, login("a@x.com",
\* "Passw0rd") now: the user of the register is signed in
C14_RoundTripExample ==
    /\ resp.op = "login"
    /\ resp.args = [email |-> "a@x.com", password |-> "Passw0rd"]
    /\ clock > TokenTTL
    /\ Len(users) = 1
    /\ users[1].username = "alice" /\ users[1].createdAt < TokenTTL
    /\ SameIdentity(resp.data.user, users[1])
    /\ session.user = resp.data.user

\* C15: a login with an email no stored user has and a login with a password
\* that no stored user of that email has end in the same outcome, the error
\* 'Invalid credentials' and nothing else; no token is issued, and the user,
\* the token and the stored token of the session stay as they were.
C15_LoginFailureUniform ==
    [][\A e \in Emails, p \in Passwords :
          (/\ login(e, p)
           /\ \A i \in 1..Len(users) :
                 users[i].email # e \/ users[i].password # hashPassword(p))
          => /\ resp'.op = "login"
             /\ resp'.data = Thrown("Invalid credentials")
             /\ session' = session
             /\ storedToken' = storedToken
             /\ users' = users]_vars

\* a signed-in user's session has survived a login with a wrong password and
\* one with an unknown email
C15_Witness ==
    /\ resp.op = "login"
    /\ resp.data = Thrown("Invalid credentials")
    /\ \A i \in 1..Len(users) : users[i].email # resp.args.email
    /\ \E i \in 1..Len(users) : users[i].password # hashPassword(resp.args.password)
    /\ session.user # NoTask
    /\ storedToken = session.token

\* what C16 says of one verification: up to 24 hours after the issue the
\* claims of the user come back, later nothing does
LifetimeKept ==
    resp.op = "verifyToken" =>
        LET payload == resp.args.token.b64
        IN IF resp.args.now <= payload.exp
           THEN /\ resp.data # NoTask
                /\ resp.data.id = payload.id
                /\ resp.data.username = payload.username
                /\ resp.data.email = payload.email
           ELSE resp.data = NoTask

\* C16: for every user and every issue time t, issue gives a token that
\* carries the user's id, username and email and expires at t + 24 h; verify
\* returns these claims at every time up to the expiry and nothing after it.
C16_TokenLifetime ==
    /\ resp.op = "generateToken" =>
          /\ ~Has(resp.data, "error")
          /\ resp.data.b64.id = resp.args.user.id
          /\ resp.data.b64.username = resp.args.user.username
          /\ resp.data.b64.email = resp.args.user.email
          /\ resp.data.b64.exp = resp.args.now + 86400000
    /\ LifetimeKept

\* C16 for users whose username and email btoa accepts
C16_TokenLifetimeLatin1 ==
    /\ (/\ resp.op = "generateToken"
        /\ resp.args.user.username # "U+674E") =>
          /\ ~Has(resp.data, "error")
          /\ resp.data.b64.id = resp.args.user.id
          /\ resp.data.b64.username = resp.args.user.username
          /\ resp.data.b64.email = resp.args.user.email
          /\ resp.data.b64.exp = resp.args.now + 86400000
    /\ LifetimeKept

\* a token verified at the last millisecond of its life
C16_LastMillisecond ==
    /\ resp.op = "verifyToken"
    /\ resp.args.now = resp.args.token.b64.exp
    /\ resp.data # NoTask

\* a token refused a millisecond after the end of its life
C16_FirstMillisecondAfter ==
    /\ resp.op = "verifyToken"
    /\ resp.args.now = resp.args.token.b64.exp + 1
    /\ resp.data = NoTask

\* the password field of a stored user holds the digest; an object discloses
\* the password or its digest if it has that field
Discloses(fields) == "password" \in DOMAIN fields

\* C17: what is stored for a registered user is the digest of the password
\* submitted and never that password; the user returned by a register or a
\* login that succeeded, the claims of the token issued with it, and the user
\* and token of the session hold neither the password nor its digest.
C17_PasswordNeverPlain ==
    /\ \A i \in 1..Len(users) :
          /\ users[i].password \notin Passwords
          /\ \E p \in Passwords : users[i].password = hashPassword(p)
    /\ (/\ resp.op = "register"
         /\ resp.data # Thrown("User already exists with this email")) =>
          \E i \in 1..Len(users) :
             /\ users[i].email = resp.args.email
             /\ users[i].username = resp.args.username
             /\ users[i].password = hashPassword(resp.args.password)
             /\ users[i].password # resp.args.password
    /\ (resp.op \in {"register", "login"} /\ Has(resp.data, "user")) =>
          /\ ~Discloses(resp.data.user)
          /\ DOMAIN resp.data.user = {"id", "username", "email", "createdAt"}
          /\ DOMAIN resp.data.token.b64 = {"id", "username", "email", "exp"}
    /\ session.user # NoTask => ~Discloses(session.user)
    /\ session.token # NoTask => ~Discloses(session.token.b64)
    /\ storedToken # NoTask => ~Discloses(storedToken.b64)

\* a user registered with "Passw0rd" has signed in with it: the digest is
\* stored, and the user and the token handed out carry no password
C17_Witness ==
    /\ resp.op = "login"
    /\ resp.args.password = "Passw0rd"
    /\ Has(resp.data, "user")
    /\ \E i \in 1..Len(users) :
          /\ users[i].id = resp.data.user.id
          /\ users[i].password = hashPassword("Passw0rd")
    /\ session.user = resp.data.user
    /\ storedToken = resp.data.token

\* a token verifies at instant now: it decodes to claims with an identity and
\* an expiry that has not passed
Verifies(token, now) ==
    /\ Has(token, "b64")
    /\ {"id", "username", "email", "exp"} \subseteq DOMAIN token.b64
    /\ now <= token.b64.exp

\* C18: the session gets a user only by a register or a login that succeeded
\* or by the restoration at startup of a stored token that verifies; a stored
\* token that is invalid or expired at startup is removed and the LoginForm
\* is shown (a stored '' counts as no stored token); a logout clears user,
\* token and stored token.
C18_SessionMachine ==
    [][/\ (session' # session /\ session'.user # NoTask) =>
             \/ /\ resp'.op \in {"register", "login"}
                /\ Has(resp'.data, "user")
                /\ session' = [user |-> resp'.data.user, token |-> resp'.data.token]
                /\ storedToken' = resp'.data.token
             \/ /\ resp'.op = "restoreSession"
                /\ Verifies(storedToken, clock)
                /\ session'.token = storedToken
                /\ storedToken' = storedToken
       /\ (/\ restoreSession
           /\ storedToken \notin {NoTask, EmptyString}
           /\ ~Verifies(storedToken, clock)) =>
             /\ storedToken' = NoTask
             /\ session' = NoSession
             /\ AppContent' = "LoginForm"
       /\ logout => /\ session' = NoSession
                    /\ storedToken' = NoTask
                    /\ AppContent' = "LoginForm"]_vars

\* the Dashboard is shown after a startup with a stored token without expiry
C18_RestoredWithoutExpiry ==
    /\ resp.op = "restoreSession"
    /\ AppContent = "Dashboard"
    /\ ~Has(session.token.b64, "exp")

\* a session restored at startup from a token issued less than a day before
C18_RestoredIssuedToken ==
    /\ resp.op = "restoreSession"
    /\ AppContent = "Dashboard"
    /\ Verifies(session.token, clock)
    /\ session.token = storedToken

\* a startup a day after the sign-in: the stored token is gone
C18_ExpiredAtStartup ==
    /\ resp.op = "restoreSession"
    /\ clock > TokenTTL
    /\ Len(users) > 0
    /\ AppContent = "LoginForm"
    /\ storedToken = NoTask

\* the body of a '/bulk' request, from the response to it
BulkBody(r) ==
    IF Has(r.args, "body") THEN r.args.body
    ELSE [taskIds |-> [array |-> r.args.taskIds], updates |-> [object |-> r.args.updates]]

\* the messages the validators of its route record for the request answered
\* by r
FailedValidators(r) ==
    CASE r.op = "getTasks" ->
            IF ValidateTaskQuery(r.args.query) THEN {} ELSE {"Validation failed"}
      [] r.op = "createTask" -> ValidateCreateTask(r.args.body)
      [] r.op \in {"getTask", "deleteTask", "toggleArchiveTask"} ->
            ValidateObjectId(r.args.id)
      [] r.op = "updateTask" -> ValidateUpdateTask(r.args.id, r.args.body)
      [] r.op = "bulkUpdateTasks" -> ValidateBulk(BulkBody(r))
      [] OTHER -> {}

\* C19: on every task route that declares validators, a request that fails
\* one of them is answered 400 and the collection is left as it was.
C19_ValidationAtTheBoundary ==
    [][FailedValidators(resp') # {} =>
          /\ resp'.code = 400
          /\ tasks' = tasks]_vars

\* C19 on the routes other than '/bulk'
C19_HandledRoutes ==
    [][(resp'.op # "bulkUpdateTasks" /\ FailedValidators(resp') # {}) =>
          /\ resp'.code = 400
          /\ tasks' = tasks]_vars

\* a '/bulk' request whose updates are no object has been answered 200 and a
\* task of the caller has been written
C19_BulkWritesUnvalidated ==
    /\ resp.op = "bulkUpdateTasks"
    /\ "Updates object is required" \in ValidateBulk(BulkBody(resp))
    /\ resp.code = 200
    /\ Has(resp.data, "modifiedCount") /\ resp.data.modifiedCount = 1
    /\ \E id \in DOMAIN tasks : tasks[id].isArchived

\* a request with an id that is no ObjectId has been refused while a task is
\* stored
C19_RefusedAtTheBoundary ==
    /\ resp.op = "deleteTask"
    /\ resp.args.id = NotAnObjectId
    /\ resp.code = 400 /\ resp.data.message = "Validation failed"
    /\ DOMAIN tasks # {}

\* C20: a '/bulk' request whose taskIds are missing, no array or an empty
\* array is answered 400 with success false, and no task is modified.
C20_BulkNeedsIds ==
    [][(/\ resp'.op = "bulkUpdateTasks"
        /\ LET b == BulkBody(resp')
           IN \/ ~Has(b, "taskIds")
              \/ ~Has(b.taskIds, "array")
              \/ b.taskIds.array = {})
       => /\ resp'.code = 400
          /\ resp'.data.success = FALSE
          /\ tasks' = tasks]_vars

\* requests without taskIds, with a string and with an empty array have been
\* refused while the caller has a task
C20_Witness ==
    /\ resp.op = "bulkUpdateTasks"
    /\ resp.code = 400
    /\ resp.data.message = "Task IDs array is required"
    /\ ~Has(resp.args.body, "taskIds")
    /\ \E id \in DOMAIN tasks : tasks[id].user = resp.caller

\* the same for taskIds that are a string
C20_WitnessNoArray ==
    /\ resp.op = "bulkUpdateTasks"
    /\ resp.code = 400
    /\ Has(resp.args.body, "taskIds") /\ Has(resp.args.body.taskIds, "string")
    /\ \E id \in DOMAIN tasks : tasks[id].user = resp.caller

\* C21: a PUT of preferences that succeeded has merged: the theme is the one
\* sent, or the previous one when none was sent; every notification flag is
\* the one sent, or the previous one when it was not named or no
\* notifications were sent; the preferences of the other users are as before.
C21_PreferencesMerge ==
    [][resp'.op = "put_preferences" /\ resp'.code = 200 =>
          LET body == resp'.args.body
              before == preferences[resp'.caller]
              after == preferences'[resp'.caller]
          IN /\ DOMAIN after.notifications = {"email", "push"}
             /\ after.theme = IF Has(body, "theme") /\ body.theme \in Themes
                              THEN body.theme ELSE before.theme
             /\ \A flag \in {"email", "push"} :
                   after.notifications[flag] =
                      IF /\ Has(body, "notifications")
                         /\ body.notifications # NoTask
                         /\ flag \in DOMAIN body.notifications
                      THEN body.notifications[flag]
                      ELSE before.notifications[flag]
             /\ resp'.data = after
             /\ \A u \in DOMAIN preferences \ {resp'.caller} :
                   preferences'[u] = preferences[u]]_vars

\* a PUT of one notification flag has left the dark theme and the other flag,
\* which differs from the flag sent, as they were
C21_Witness ==
    /\ resp.op = "put_preferences"
    /\ resp.code = 200
    /\ resp.args.body = [notifications |-> [email |-> FALSE]]
    /\ preferences[resp.caller] =
          [theme |-> "dark", notifications |-> [email |-> FALSE, push |-> TRUE]]

\* C22: a toggleArchiveTask that answers 200 has flipped the stored flag,
\* whatever other requests ran between its read and its write, so that two
\* concurrent toggles of a task leave the flag as it was.
C22_ToggleAtomic ==
    [][(/\ Len(inflight') < Len(inflight)
        /\ resp'.op = "toggleArchiveTask"
        /\ resp'.code = 200)
       => tasks'[resp'.args.id].isArchived = ~tasks[resp'.args.id].isArchived]_vars

\* C24: an updateTask ends with the updated task (200) or NotFound (404),
\* never with an internal error, and writes only to a task that the caller
\* owns at the time of the write.
C24_UpdateOutcomes ==
    [][resp'.op = "updateTask" /\ (Len(inflight') < Len(inflight) \/ resp' # resp) =>
          /\ resp'.code \in {200, 404}
          /\ tasks' # tasks => tasks[resp'.args.id].user = resp'.caller]_vars

\* the ownership half of C24
C24_WritesOwnTask ==
    [][(resp'.op = "updateTask" /\ tasks' # tasks) =>
          tasks[resp'.args.id].user = resp'.caller]_vars

\* an updateTask has ended in an internal error after the task was deleted
C24_InternalError ==
    /\ resp.op = "updateTask"
    /\ resp.code = 500
    /\ resp.args.id \notin DOMAIN tasks

\* what C23 says of one task before and after a patch: the fields are those
\* it had and those of the patch, a field of the patch has the patched value
\* and every other field but updatedAt has the value it had
PatchedBy(before, after, patch) ==
    /\ DOMAIN after = (DOMAIN before) \cup (DOMAIN patch)
    /\ \A p \in (DOMAIN after) \ {"updatedAt"} :
          after[p] = IF p \in DOMAIN patch THEN patch[p] ELSE before[p]

C23_WitnessClient ==
    /\ resp.op = "api.updateTask" /\ ~Has(resp.data, "error")
    /\ resp.args.updates = [title |-> <<"b">>, priority |-> "high"]
    /\ resp.data.status = "completed"
    /\ resp.data.title = <<"b">> /\ resp.data.priority = "high"

\* a token is structurally valid: it decodes to claims that hold an expiry
\* and the identity (id, username, email)
StructurallyValid(token) ==
    /\ Has(token, "b64")
    /\ {"id", "username", "email", "exp"} \subseteq DOMAIN token.b64

\* C25: verify gives no user for a token that is not structurally valid.
C25_RejectsInvalidTokens ==
    (resp.op = "verifyToken" /\ ~StructurallyValid(resp.args.token))
    => resp.data = NoTask

\* the part of C25 about strings that do not decode
C25_RejectsUndecodable ==
    (resp.op = "verifyToken" /\ ~Has(resp.args.token, "b64"))
    => resp.data = NoTask

\* verify has returned a user for claims without exp, a day after the start
C25_UserWithoutExpiry ==
    /\ resp.op = "verifyToken"
    /\ Has(resp.args.token, "b64") /\ ~Has(resp.args.token.b64, "exp")
    /\ resp.args.now > TokenTTL
    /\ resp.data # NoTask

\* C26: the user store never holds two users with one email, also when
\* register calls overlap (of two calls with one email at most one stores a
\* user).
C26_EmailUnique ==
    \A i, j \in 1..Len(users) : users[i].email = users[j].email => i = j

\* C27: no two tasks of the store of the browser share an id and no two
\* users share an id.
C27_UniqueIds ==
    /\ \A i, j \in 1..Len(ctasks) : ctasks[i].id = ctasks[j].id => i = j
    /\ \A i, j \in 1..Len(users) : users[i].id = users[j].id => i = j

\* the half of C27 about users
C27_UniqueUserIds ==
    \A i, j \in 1..Len(users) : users[i].id = users[j].id => i = j

\* what api.getTasks(user.id) would return now
StoreView == SelectSeq(ctasks, LAMBDA t : t.userId = ProviderUser)

\* C28: whenever the TaskProvider awaits no call, its tasks list is the list
\* that api.getTasks(user.id) would return.
C28_ProviderMatchesStore ==
    provider.awaiting = <<>> => provider.tasks = StoreView

\* C28 as long as no two tasks of the store have had the same id
C28_MatchesWhileIdsDiffer ==
    [](\A i, j \in 1..Len(ctasks) : ctasks[i].id = ctasks[j].id => i = j)
        => []C28_ProviderMatchesStore

\* C29: loading is true exactly while the TaskProvider awaits a call.
C29_LoadingWhileInFlight ==
    provider.loading <=> provider.awaiting # <<>>

\* the half of C29 that holds: a provider that awaits nothing is not loading
C29_IdleNotLoading ==
    provider.awaiting = <<>> => ~provider.loading

\* C30: a call of createTask, updateTask or deleteTask that fails changes
\* neither the store nor the tasks list of the TaskProvider, sets error to
\* the message of the failure, sets loading to false and throws the failure
\* to the caller; every call starts by setting error to null and a call
\* that succeeds leaves error as it is.
C30_FailureLeavesTasks ==
    [][/\ Len(provider'.awaiting) > Len(provider.awaiting) =>
            /\ provider'.error = NoTask
            /\ provider'.tasks = provider.tasks
            /\ Has(resp'.data, "error") => ctasks' = ctasks
       /\ Len(provider'.awaiting) < Len(provider.awaiting) =>
            LET outcome == Head(provider.awaiting)
            IN /\ ~provider'.loading
               /\ IF Has(outcome.data, "error")
                  THEN /\ provider'.tasks = provider.tasks
                       /\ provider'.error = outcome.data.error
                       /\ resp'.data = [error |-> outcome.data.error]
                       /\ ctasks' = ctasks
                  ELSE /\ provider'.error = provider.error
                       /\ resp'.data = NoTask]_vars

\* an updateTask or deleteTask of the TaskProvider has failed with tasks in
\* its list
C30_Witness ==
    /\ resp.op = "TaskProvider"
    /\ resp.data = [error |-> "Task not found"]
    /\ provider.error = "Task not found"
    /\ provider.tasks # <<>>
    /\ ~provider.loading

\* after a failure, a call that succeeded has left error null
C30_WitnessReset ==
    /\ resp.op = "TaskProvider"
    /\ resp.args.call = "api.createTask"
    /\ resp.data = NoTask
    /\ provider.error = NoTask
    /\ Len(provider.tasks) = 2
    /\ provider.awaiting = <<>>

====
